---------------------------- MODULE Spec2Model ----------------------------
(***************************************************************************)
(* State-machine model of the balance / order core of the repository.      *)
(*                                                                         *)
(* The repository holds two implementations of the same core:              *)
(*   - the package under src/bot (services/wallet.py, services/orders.py,  *)
(*     handlers/admin.py, handlers/user.py): documents "wallets" and       *)
(*     "orders" (with an embedded next_id counter);                        *)
(*   - the monolith src/main.py: documents users.json (balance and hold    *)
(*     live in the user record) and pending.json (the requests).           *)
(* Both read a whole document, change it in memory and write the whole     *)
(* document back.  Every `await` on the store is one step of a task.  The  *)
(* store of main.py (load_data / atomic_write) reads and replaces a        *)
(* document as a whole under the file's lock, which is what one step       *)
(* models; the store of src/bot (bot/storage.py) and its constants         *)
(* (bot/utils/constants.py) are not among the sources, and are taken to be *)
(* the same kind of store and the status and type names of main.py.        *)
(*                                                                         *)
(* SpecSeq runs one handler at a time, which is how an Application built   *)
(* without concurrent_updates (main.py main(), bot/bot.py) hands updates   *)
(* to handlers; Spec lets handlers overlap at their awaits, the scheduling *)
(* the store's locks are written for.                                      *)
(*                                                                         *)
(* Amounts are integers counted in units of the smallest accepted amount.  *)
(***************************************************************************)
EXTENDS Integers, Sequences, FiniteSets, TLC

(***************************************************************************)
(* Bounds of the model.                                                    *)
(***************************************************************************)
MaxBalance == 2
MaxAmount == 2
MaxCalls == 2

(***************************************************************************)
(* Python's max(0, x).                                                     *)
(***************************************************************************)
Max0(x) == IF x < 0 THEN 0 ELSE x

(***************************************************************************)
(* services/wallet.py, as functions of one user's wallet entry             *)
(* w = wallet.get(uid, {"balance": 0, "hold": 0}).                         *)
(***************************************************************************)
DefaultWallet == [balance |-> 0, hold |-> 0]

\* get_wallet: the entry with both fields clamped at zero (not saved).
GetWalletView(w) == [balance |-> Max0(w.balance), hold |-> Max0(w.hold)]

\* Variant of add_balance that credits the amount twice.
AddBalance_Twice(w, amount) ==
    [balance |-> Max0(w.balance + amount + amount), hold |-> Max0(w.hold)]

AddBalance(w, amount) ==
    [balance |-> Max0(w.balance + amount), hold |-> Max0(w.hold)]

\* Variant of reserve_withdraw without the balance check.
ReserveWithdraw_NoCheck(w, amount) ==
    IF amount <= 0
    THEN [ok |-> FALSE, w |-> GetWalletView(w), reason |-> "amount_invalid"]
    ELSE [ok |-> TRUE,
          w |-> [balance |-> Max0(w.balance - amount),
                 hold |-> Max0(w.hold + amount)],
          reason |-> "ok"]

\* reserve_withdraw returns (ok, wallet entry, reason).
ReserveWithdraw(w, amount) ==
    IF amount <= 0
    THEN [ok |-> FALSE, w |-> GetWalletView(w), reason |-> "amount_invalid"]
    ELSE IF w.balance < amount
    THEN [ok |-> FALSE, w |-> w, reason |-> "insufficient"]
    ELSE [ok |-> TRUE,
          w |-> [balance |-> Max0(w.balance - amount),
                 hold |-> Max0(w.hold + amount)],
          reason |-> "ok"]

\* Variant of release_hold that does not return the amount to the balance.
ReleaseHold_KeepBalance(w, amount) ==
    [balance |-> Max0(w.balance), hold |-> Max0(w.hold - amount)]

\* Variant of finalize_withdraw that leaves the hold in place.
FinalizeWithdraw_KeepHold(w, amount) ==
    [balance |-> Max0(w.balance), hold |-> Max0(w.hold)]

ReleaseHold(w, amount) ==
    [balance |-> Max0(w.balance + amount), hold |-> Max0(w.hold - amount)]

FinalizeWithdraw(w, amount) ==
    [balance |-> Max0(w.balance), hold |-> Max0(w.hold - amount)]

(***************************************************************************)
(* main.py: the same operations written inline in the handlers, on the     *)
(* balance and hold fields of a UserData record.                           *)
(***************************************************************************)
\* withdraw_confirm_callback: "Check balance again", then "Hold the amount".
MainReserve(w, amount) ==
    IF amount > w.balance - w.hold
    THEN [ok |-> FALSE, w |-> w, reason |-> "insufficient"]
    ELSE [ok |-> TRUE,
          w |-> [balance |-> w.balance - amount, hold |-> w.hold + amount],
          reason |-> "ok"]

\* cancel_withdraw_callback / handle_reject_request: return the held amount.
MainRelease(w, amount) ==
    [balance |-> w.balance + amount, hold |-> w.hold - amount]

\* handle_approve_request, topup branch.
MainCredit(w, amount) ==
    [balance |-> w.balance + amount, hold |-> w.hold]

(***************************************************************************)
(* services/orders.py, as functions of the "orders" document               *)
(* orders_obj = {"next_id": n, "orders": [...]}.  An order's data holds an *)
(* amount for every type modelled here.                                    *)
(***************************************************************************)
NumUsers == 1
NumTasks == 2
MaxOrders == 2
MaxRev == 2
MaxStarts == 4

PositiveAmounts == 1 .. MaxAmount
Users == 1 .. NumUsers
Tasks == 1 .. NumTasks

STATUS_PENDING == "pending"
STATUS_APPROVED == "approved"
STATUS_REJECTED == "rejected"
ORDER_TOPUP == "topup"
ORDER_WITHDRAW == "withdraw"
ORDER_ICH_TOPUP == "ich_topup"
ORDER_ICH_WITHDRAW == "ich_withdraw"

NoOrder ==
    [id |-> 0, type |-> "none", status |-> "none", user_id |-> 0,
     amount |-> 0, updated_at |-> 0]

EmptyOrders == [next_id |-> 1, orders |-> <<>>]

EmptyWallets == [u \in Users |-> DefaultWallet]

\* Variant of the status check that lets every order through.
NotPending_Never(order) == FALSE

\* _approve_order / _reject_order: if order.get("status") != "pending".
NotPending(order) == order.status # "pending"

\* Variant of create_order that stores the order as already approved.
CreateOrder_Approved(obj, order_type, user_id, amount) ==
    LET order == [id |-> obj.next_id, type |-> order_type,
                  status |-> STATUS_APPROVED, user_id |-> user_id,
                  amount |-> amount, updated_at |-> 0]
    IN [obj |-> [next_id |-> obj.next_id + 1,
                 orders |-> Append(obj.orders, order)],
        order |-> order]

\* create_order: the document after the append, and the order returned.
CreateOrder(obj, order_type, user_id, amount) ==
    LET order == [id |-> obj.next_id, type |-> order_type,
                  status |-> STATUS_PENDING, user_id |-> user_id,
                  amount |-> amount, updated_at |-> 0]
    IN [obj |-> [next_id |-> obj.next_id + 1,
                 orders |-> Append(obj.orders, order)],
        order |-> order]

\* Index of the first order with this id, 0 when there is none.
FindOrder(obj, order_id) ==
    LET hits == {i \in 1 .. Len(obj.orders) : obj.orders[i].id = order_id}
    IN IF hits = {} THEN 0
       ELSE CHOOSE i \in hits : \A j \in hits : i <= j

GetOrder(obj, order_id) ==
    LET i == FindOrder(obj, order_id)
    IN IF i = 0 THEN NoOrder ELSE obj.orders[i]

\* o.update(patch): a patch sets either the status or the data (the amount).
StatusPatch(status) == [field |-> "status", status |-> status, amount |-> 0]
DataPatch(amount) == [field |-> "data", status |-> "none", amount |-> amount]
NoPatch == [field |-> "none", status |-> "none", amount |-> 0]

ApplyPatch(o, patch) ==
    IF patch.field = "status" THEN [o EXCEPT !.status = patch.status]
    ELSE [o EXCEPT !.amount = patch.amount]

\* _now_iso() as seen from a stored stamp: the clock only moves forward, so
\* the new stamp is later than the one it replaces.  Stamps are counted per
\* order from 0, the stamp create_order gives.
NowAfter(stamp) == stamp + 1

\* update_order: patches the first order with this id and stamps updated_at;
\* the document is saved only when the order was found.
UpdateOrder(obj, order_id, patch) ==
    LET i == FindOrder(obj, order_id)
    IN IF i = 0 THEN [updated |-> FALSE, obj |-> obj]
       ELSE [updated |-> TRUE,
             obj |-> [obj EXCEPT !.orders[i] =
                         [ApplyPatch(obj.orders[i], patch)
                            EXCEPT !.updated_at = NowAfter(obj.orders[i].updated_at)]]]

(***************************************************************************)
(* handlers/admin.py: the ledger call _approve_order and _reject_order     *)
(* make for an order, as a function of the owner's wallet entry.           *)
(***************************************************************************)
HasLedgerEffect(op, order_type) ==
    \/ op = "approve" /\ order_type \in {ORDER_TOPUP, ORDER_WITHDRAW}
    \/ op = "reject" /\ order_type = ORDER_WITHDRAW

\* Variant of the branches in which a rejected withdrawal releases nothing.
LedgerEffect_NoRelease(op, order_type, w, amount) ==
    IF op = "approve" /\ order_type = ORDER_TOPUP THEN AddBalance(w, amount)
    ELSE IF op = "approve" /\ order_type = ORDER_WITHDRAW THEN FinalizeWithdraw(w, amount)
    ELSE w

LedgerEffect(op, order_type, w, amount) ==
    IF op = "approve" /\ order_type = ORDER_TOPUP THEN AddBalance(w, amount)
    ELSE IF op = "approve" /\ order_type = ORDER_WITHDRAW THEN FinalizeWithdraw(w, amount)
    ELSE IF op = "reject" /\ order_type = ORDER_WITHDRAW THEN ReleaseHold(w, amount)
    ELSE w

VARIABLES
    lw,         \* ledger calls: the wallet entry the calls act on
    lhist,      \* ledger calls: the calls made so far, oldest first
    wallet,     \* src/bot: the "wallets" document, user id -> entry
    orders_obj, \* src/bot: the "orders" document
    task,       \* src/bot: each handler task's position and locals
    started,    \* src/bot: handlers started so far in a concurrent run
    users,      \* main.py: users.json, user id -> balance and hold
    pending,    \* main.py: pending.json, request id -> request
    stamp,      \* main.py: request ids generated so far
    mtask,      \* main.py: each handler task's position and locals
    mstarted,   \* main.py: handlers started so far in a concurrent run
    accounts,   \* main.py: accounts.json, the pool in stored order
    eaccount,   \* main.py: users.json, user id -> eshansy_account
    suggested,  \* main.py: user_data["suggested_account"] of each user
    asked,      \* main.py: the name a user typed last and the answer to it
    itask,      \* main.py: each user's account handler, position and locals
    disk,       \* main.py store: each data file, whether it exists and its text
    tmp,        \* main.py store: each data file's .tmp file
    dirty,      \* main.py store: files whose text is not yet on stable storage
    lock,       \* main.py store: file_locks, the task holding each file's lock
    stask,      \* main.py store: each store call's position and locals
    lastw,      \* main.py store: the value of each file's last completed write
    crashes,    \* main.py store: crashes of the machine so far
    failures    \* handlers ended by a failed write so far

ledgerVars == <<lw, lhist>>
botVars == <<wallet, orders_obj, task, started>>
mainVars == <<users, pending, stamp, mtask, mstarted>>
invVars == <<accounts, eaccount, suggested, asked, itask>>
storeVars == <<disk, tmp, dirty, lock, stask, lastw, crashes, failures>>
vars == <<lw, lhist, wallet, orders_obj, task, started,
          users, pending, stamp, mtask, mstarted,
          accounts, eaccount, suggested, asked, itask,
          disk, tmp, dirty, lock, stask, lastw, crashes, failures>>

(***************************************************************************)
(* Sequential calls of the ledger functions on one wallet entry: each call *)
(* runs alone from its read to its write.                                  *)
(***************************************************************************)
AmountInputs == (-1) .. MaxAmount

WalletInputs == [balance : 0 .. MaxBalance, hold : 0 .. MaxBalance]

Call(op, amount, pre, post, ok, reason) ==
    [op |-> op, amount |-> amount, pre |-> pre, post |-> post,
     ok |-> ok, reason |-> reason]

InitLedger ==
    /\ lw \in WalletInputs
    /\ lhist = <<>>

IdleLedger ==
    /\ lw = DefaultWallet
    /\ lhist = <<>>

LAddBalance(a) ==
    /\ Len(lhist) < MaxCalls
    /\ lw' = AddBalance(lw, a)
    /\ lhist' = Append(lhist, Call("add_balance", a, lw, lw', TRUE, "ok"))
    /\ UNCHANGED <<botVars, mainVars, invVars, storeVars>>

LReserve(a) ==
    /\ Len(lhist) < MaxCalls
    /\ LET r == ReserveWithdraw(lw, a)
       IN /\ lw' = IF r.ok THEN r.w ELSE lw
          /\ lhist' = Append(lhist, Call("reserve_withdraw", a, lw, r.w, r.ok, r.reason))
    /\ UNCHANGED <<botVars, mainVars, invVars, storeVars>>

LRelease(a) ==
    /\ Len(lhist) < MaxCalls
    /\ lw' = ReleaseHold(lw, a)
    /\ lhist' = Append(lhist, Call("release_hold", a, lw, lw', TRUE, "ok"))
    /\ UNCHANGED <<botVars, mainVars, invVars, storeVars>>

LFinalize(a) ==
    /\ Len(lhist) < MaxCalls
    /\ lw' = FinalizeWithdraw(lw, a)
    /\ lhist' = Append(lhist, Call("finalize_withdraw", a, lw, lw', TRUE, "ok"))
    /\ UNCHANGED <<botVars, mainVars, invVars, storeVars>>

\* main.py's handlers only ever pass a validated amount (>= MIN_WITHDRAW).
LMainReserve(a) ==
    /\ Len(lhist) < MaxCalls
    /\ a > 0
    /\ LET r == MainReserve(lw, a)
       IN /\ lw' = r.w
          /\ lhist' = Append(lhist, Call("main_reserve", a, lw, r.w, r.ok, r.reason))
    /\ UNCHANGED <<botVars, mainVars, invVars, storeVars>>

(***************************************************************************)
(* src/bot: the handlers as tasks.  A task is idle, or inside a handler at *)
(* the store call named by pc, or done with the handler's outcome in res   *)
(* (and the id create_order returned in ret).  w0 notes the wallet entry   *)
(* of the user concerned as it was when the handler started.               *)
(***************************************************************************)
OrderIds == 1 .. (MaxOrders + 1)

IdleTask ==
    [pc |-> "idle", op |-> "none", oid |-> 0, uid |-> 0, amt |-> 0,
     type |-> "none", order |-> NoOrder, patch |-> NoPatch,
     wsnap |-> EmptyWallets, osnap |-> EmptyOrders, res |-> "none", ret |-> 0,
     w0 |-> DefaultWallet]

\* The handler returns: its snapshots go, its call and outcome stay until Return.
Finish(rec, res, ret) ==
    [IdleTask EXCEPT !.pc = "done", !.op = rec.op, !.oid = rec.oid,
                     !.uid = rec.uid, !.amt = rec.amt, !.res = res, !.ret = ret,
                     !.w0 = rec.w0]

AllIdle == \A s \in Tasks : task[s].pc = "idle"

\* A handler starts on an idle task.  With `alone` no other handler is
\* running (and it runs as the first task); without it handlers overlap, and
\* a run starts MaxStarts of them.
CanStart(t, alone) ==
    /\ task[t].pc = "idle"
    /\ alone => AllIdle /\ t = 1
    /\ alone \/ started < MaxStarts
    /\ started' = IF alone THEN started ELSE started + 1

InitBot ==
    /\ wallet = EmptyWallets
    /\ orders_obj = EmptyOrders
    /\ task = [t \in Tasks |-> IdleTask]
    /\ started = 0

\* topup_get_amount, ich_topup_amount, ich_withdraw_amount:
\* create_order up to `orders_obj = await storage.get_orders()`.
CreateRead(t, order_type, uid, amount, alone) ==
    /\ CanStart(t, alone)
    /\ Len(orders_obj.orders) < MaxOrders
    /\ task' = [task EXCEPT ![t] =
                  [IdleTask EXCEPT !.pc = "create_save", !.op = "create",
                                   !.type = order_type, !.uid = uid, !.amt = amount,
                                   !.osnap = orders_obj, !.w0 = wallet[uid]]]
    /\ UNCHANGED <<wallet, orders_obj, ledgerVars, mainVars, invVars, storeVars>>

\* create_order from the append to `await storage.save_orders(orders_obj)`.
CreateSave(t) ==
    /\ task[t].pc = "create_save"
    /\ LET r == CreateOrder(task[t].osnap, task[t].type, task[t].uid, task[t].amt)
       IN /\ orders_obj' = r.obj
          /\ task' = [task EXCEPT ![t] = Finish(task[t], "ok", r.order.id)]
    /\ UNCHANGED <<wallet, started, ledgerVars, mainVars, invVars, storeVars>>

\* withdraw_get_amount: reserve_withdraw up to its read of the wallets
\* document and its balance check.
ReserveRead(t, uid, amount, alone) ==
    /\ CanStart(t, alone)
    /\ Len(orders_obj.orders) < MaxOrders
    /\ LET r == ReserveWithdraw(wallet[uid], amount)
       IN task' = [task EXCEPT ![t] =
                     IF r.ok
                     THEN [IdleTask EXCEPT !.pc = "reserve_save", !.op = "withdraw",
                                           !.type = ORDER_WITHDRAW, !.uid = uid,
                                           !.amt = amount, !.wsnap = wallet,
                                           !.w0 = wallet[uid]]
                     ELSE Finish([IdleTask EXCEPT !.op = "withdraw", !.uid = uid,
                                                  !.amt = amount, !.w0 = wallet[uid]],
                                 r.reason, 0)]
    /\ UNCHANGED <<wallet, orders_obj, ledgerVars, mainVars, invVars, storeVars>>

\* reserve_withdraw: wallet[uid] = w; await storage.save_wallet(wallet).
ReserveSave(t) ==
    /\ task[t].pc = "reserve_save"
    /\ wallet' = [task[t].wsnap EXCEPT ![task[t].uid] =
                     ReserveWithdraw(task[t].wsnap[task[t].uid], task[t].amt).w]
    /\ task' = [task EXCEPT ![t] = [task[t] EXCEPT !.pc = "wcreate_read",
                                                   !.wsnap = EmptyWallets]]
    /\ UNCHANGED <<orders_obj, started, ledgerVars, mainVars, invVars, storeVars>>

\* withdraw_get_amount: create_order's read of the orders document.
WCreateRead(t) ==
    /\ task[t].pc = "wcreate_read"
    /\ task' = [task EXCEPT ![t] = [task[t] EXCEPT !.pc = "create_save",
                                                   !.osnap = orders_obj]]
    /\ UNCHANGED <<wallet, orders_obj, started, ledgerVars, mainVars, invVars, storeVars>>

\* admin_callback_router: get_order, then _approve_order / _reject_order up
\* to the status check.  op is "approve" or "reject".
\* Variant of the decision handlers that goes to the status write at once.
DecideRead_StatusFirst(t, op, oid, alone) ==
    /\ CanStart(t, alone)
    /\ LET order == GetOrder(orders_obj, oid)
           me == [IdleTask EXCEPT !.op = op, !.oid = oid]
       IN task' = [task EXCEPT ![t] =
                     IF order = NoOrder THEN Finish(me, "not_found", 0)
                     ELSE IF NotPending(order) THEN Finish(me, "not_pending", 0)
                     ELSE [me EXCEPT !.pc = "status_read",
                                     !.order = order, !.uid = order.user_id,
                                     !.amt = order.amount,
                                     !.w0 = wallet[order.user_id],
                                     !.patch = StatusPatch(IF op = "approve"
                                                           THEN STATUS_APPROVED
                                                           ELSE STATUS_REJECTED)]]
    /\ UNCHANGED <<wallet, orders_obj, ledgerVars, mainVars, invVars, storeVars>>

DecideRead(t, op, oid, alone) ==
    /\ CanStart(t, alone)
    /\ LET order == GetOrder(orders_obj, oid)
           me == [IdleTask EXCEPT !.op = op, !.oid = oid]
       IN task' = [task EXCEPT ![t] =
                     IF order = NoOrder THEN Finish(me, "not_found", 0)
                     ELSE IF NotPending(order) THEN Finish(me, "not_pending", 0)
                     ELSE [me EXCEPT !.pc = IF HasLedgerEffect(op, order.type)
                                            THEN "ledger_read" ELSE "status_read",
                                     !.order = order, !.uid = order.user_id,
                                     !.amt = order.amount,
                                     !.w0 = wallet[order.user_id],
                                     !.patch = StatusPatch(IF op = "approve"
                                                           THEN STATUS_APPROVED
                                                           ELSE STATUS_REJECTED)]]
    /\ UNCHANGED <<wallet, orders_obj, ledgerVars, mainVars, invVars, storeVars>>

\* add_balance / finalize_withdraw / release_hold: wallet = await storage.get_wallet().
LedgerRead(t) ==
    /\ task[t].pc = "ledger_read"
    /\ task' = [task EXCEPT ![t] = [task[t] EXCEPT !.pc = "ledger_save",
                                                   !.wsnap = wallet]]
    /\ UNCHANGED <<wallet, orders_obj, started, ledgerVars, mainVars, invVars, storeVars>>

\* ... wallet[uid] = w; await storage.save_wallet(wallet).
LedgerSave(t) ==
    /\ task[t].pc = "ledger_save"
    /\ LET o == task[t].order
       IN wallet' = [task[t].wsnap EXCEPT ![o.user_id] =
                        LedgerEffect(task[t].op, o.type, task[t].wsnap[o.user_id], o.amount)]
    /\ task' = [task EXCEPT ![t] = [task[t] EXCEPT !.pc = "status_read",
                                                   !.wsnap = EmptyWallets]]
    /\ UNCHANGED <<orders_obj, started, ledgerVars, mainVars, invVars, storeVars>>

\* Variant of the edit handler without the "if not order" check.
EditRead_NoCheck(t, oid, amount, alone) ==
    /\ CanStart(t, alone)
    /\ GetOrder(orders_obj, oid).updated_at < MaxRev
    /\ LET order == GetOrder(orders_obj, oid)
           me == [IdleTask EXCEPT !.op = "edit", !.oid = oid, !.amt = amount]
       IN task' = [task EXCEPT ![t] =
                     [me EXCEPT !.pc = "status_read", !.order = order,
                                !.uid = order.user_id,
                                !.w0 = DefaultWallet,
                                !.patch = DataPatch(amount)]]
    /\ UNCHANGED <<wallet, orders_obj, ledgerVars, mainVars, invVars, storeVars>>

\* admin_message_listener_for_edits (an order carrying an amount): get_order,
\* then the patch built from the order's data and the amount typed.
EditRead(t, oid, amount, alone) ==
    /\ CanStart(t, alone)
    /\ GetOrder(orders_obj, oid).updated_at < MaxRev
    /\ LET order == GetOrder(orders_obj, oid)
           me == [IdleTask EXCEPT !.op = "edit", !.oid = oid, !.amt = amount]
       IN task' = [task EXCEPT ![t] =
                     IF order = NoOrder
                     THEN Finish(me, "not_found", 0)
                     ELSE [me EXCEPT !.pc = "status_read", !.order = order,
                                     !.uid = order.user_id,
                                     !.w0 = wallet[order.user_id],
                                     !.patch = DataPatch(amount)]]
    /\ UNCHANGED <<wallet, orders_obj, ledgerVars, mainVars, invVars, storeVars>>

\* update_order: orders_obj = await storage.get_orders().
StatusRead(t) ==
    /\ task[t].pc = "status_read"
    /\ task' = [task EXCEPT ![t] = [task[t] EXCEPT !.pc = "status_save",
                                                   !.osnap = orders_obj]]
    /\ UNCHANGED <<wallet, orders_obj, started, ledgerVars, mainVars, invVars, storeVars>>

\* update_order: the patch, updated_at, and await storage.save_orders(orders_obj)
\* when the order was found.
StatusSave(t) ==
    /\ task[t].pc = "status_save"
    /\ LET r == UpdateOrder(task[t].osnap, task[t].oid, task[t].patch)
       IN /\ orders_obj' = IF r.updated THEN r.obj ELSE orders_obj
          /\ task' = [task EXCEPT ![t] =
                        Finish(task[t], IF r.updated THEN "ok" ELSE "not_updated", 0)]
    /\ UNCHANGED <<wallet, started, ledgerVars, mainVars, invVars, storeVars>>

\* admin_adjust_amount: add_balance up to its read of the wallets document.
AdjustRead(t, uid, amount, alone) ==
    /\ CanStart(t, alone)
    /\ wallet[uid].balance + amount <= MaxBalance
    /\ task' = [task EXCEPT ![t] =
                  [IdleTask EXCEPT !.pc = "adjust_save", !.op = "adjust",
                                   !.uid = uid, !.amt = amount, !.wsnap = wallet,
                                   !.w0 = wallet[uid]]]
    /\ UNCHANGED <<wallet, orders_obj, ledgerVars, mainVars, invVars, storeVars>>

\* add_balance: wallet[uid] = w; await storage.save_wallet(wallet).
AdjustSave(t) ==
    /\ task[t].pc = "adjust_save"
    /\ wallet' = [task[t].wsnap EXCEPT ![task[t].uid] =
                     AddBalance(task[t].wsnap[task[t].uid], task[t].amt)]
    /\ task' = [task EXCEPT ![t] = Finish(task[t], "ok", 0)]
    /\ UNCHANGED <<orders_obj, started, ledgerVars, mainVars, invVars, storeVars>>

\* The handler's outcome has been delivered; the task is free again.
Return(t) ==
    /\ task[t].pc = "done"
    /\ task' = [task EXCEPT ![t] = IdleTask]
    /\ UNCHANGED <<wallet, orders_obj, started, ledgerVars, mainVars, invVars, storeVars>>

CreateTypes == {ORDER_TOPUP, ORDER_ICH_TOPUP, ORDER_ICH_WITHDRAW}
AdjustAmounts == {-1, 1}

BotSteps(t) ==
    \/ CreateSave(t)
    \/ ReserveSave(t)
    \/ WCreateRead(t)
    \/ LedgerRead(t)
    \/ LedgerSave(t)
    \/ StatusRead(t)
    \/ StatusSave(t)
    \/ AdjustSave(t)
    \/ Return(t)

BotStarts(t, alone) ==
    \/ \E ty \in CreateTypes, u \in Users, a \in PositiveAmounts :
          CreateRead(t, ty, u, a, alone)
    \/ \E u \in Users, a \in PositiveAmounts : ReserveRead(t, u, a, alone)
    \/ \E op \in {"approve", "reject"}, i \in OrderIds : DecideRead(t, op, i, alone)
    \/ \E i \in OrderIds, a \in PositiveAmounts : EditRead(t, i, a, alone)
    \/ \E u \in Users, a \in AdjustAmounts : AdjustRead(t, u, a, alone)

(***************************************************************************)
(* main.py: the handlers as tasks over users.json and pending.json.        *)
(* DataManager.get_user loads users.json and copies one record;            *)
(* DataManager.save_user loads users.json again, puts the record in and    *)
(* writes the document; get_pending_requests / save_pending_requests load  *)
(* and write pending.json as a whole.                                      *)
(***************************************************************************)
MaxRequests == 2
MaxMainStarts == 5

ReqIds == 1 .. MaxRequests

\* Telegram ids: the users who hold a balance, and one more sender (an admin).
AdminId == NumUsers + 1
Actors == Users \cup {AdminId}

NoRequest ==
    [user_id |-> 0, type |-> "none", amount |-> 0, status |-> "none",
     handled_by |-> 0]

\* PendingRequest.__init__: status = "pending", handled_by = None.
PendingRequest(user_id, req_type, amount) ==
    [user_id |-> user_id, type |-> req_type, amount |-> amount, status |-> "pending",
     handled_by |-> 0]

EmptyPending == [i \in ReqIds |-> NoRequest]

\* UserData.__init__: balance = 0.0, hold = 0.0.
NewUsers == [u \in Users |-> DefaultWallet]

\* The entry checks of handle_approve_request / handle_reject_request and of
\* cancel_withdraw_callback on the request just loaded.
MainRefused(op, request) ==
    \/ request = NoRequest
    \/ request.status # "pending"
    \/ op = "cancel" /\ request.type # "withdraw"

\* Whether the handler changes the user record and calls save_user.
MainTouchesUser(op, req_type) ==
    \/ op = "approve" /\ req_type = "topup"
    \/ op = "reject" /\ req_type = "withdraw"
    \/ op = "cancel"

\* The change the handler makes to its copy of the user record.
MainUserEffect(op, req_type, user, amount) ==
    IF op = "approve" /\ req_type = "topup" THEN MainCredit(user, amount)
    ELSE IF op = "reject" /\ req_type = "withdraw" THEN MainRelease(user, amount)
    ELSE IF op = "cancel" THEN MainRelease(user, amount)
    ELSE user

\* request.status = "approved" / "rejected" / "cancelled".
MainStatus(op) ==
    IF op = "approve" THEN "approved"
    ELSE IF op = "reject" THEN "rejected"
    ELSE "cancelled"

MIdleTask ==
    [pc |-> "idle", op |-> "none", rid |-> 0, uid |-> 0, amt |-> 0,
     type |-> "none", user |-> DefaultWallet, usnap |-> NewUsers,
     psnap |-> EmptyPending, res |-> "none", w0 |-> DefaultWallet, actor |-> 0]

MFinish(rec, res) ==
    [MIdleTask EXCEPT !.pc = "done", !.op = rec.op, !.rid = rec.rid, !.uid = rec.uid,
                      !.amt = rec.amt, !.type = rec.type, !.res = res, !.w0 = rec.w0,
                      !.actor = rec.actor]

MAllIdle == \A s \in Tasks : mtask[s].pc = "idle"

MCanStart(t, alone) ==
    /\ mtask[t].pc = "idle"
    /\ alone => MAllIdle /\ t = 1
    /\ alone \/ mstarted < MaxMainStarts
    /\ mstarted' = IF alone THEN mstarted ELSE mstarted + 1

InitMain ==
    /\ users = NewUsers
    /\ pending = EmptyPending
    /\ stamp = 0
    /\ mtask = [t \in Tasks |-> MIdleTask]
    /\ mstarted = 0

\* topup_confirm_callback: generate_request_id(), the PendingRequest, and
\* pending = await DataManager.get_pending_requests().
MTopupRead(t, uid, amount, alone) ==
    /\ MCanStart(t, alone)
    /\ stamp < MaxRequests
    /\ stamp' = stamp + 1
    /\ mtask' = [mtask EXCEPT ![t] =
                   [MIdleTask EXCEPT !.pc = "m_req_save", !.op = "topup",
                                     !.rid = stamp + 1, !.uid = uid, !.amt = amount,
                                     !.type = "topup", !.psnap = pending,
                                     !.w0 = users[uid]]]
    /\ UNCHANGED <<users, pending, ledgerVars, botVars, invVars, storeVars>>

\* withdraw_confirm_callback: user = await DataManager.get_user(user_id), the
\* balance check, and the hold on the copy.  The request id, drawn later in
\* the code, is opaque and is drawn here.
MWithdrawRead(t, uid, amount, alone) ==
    /\ MCanStart(t, alone)
    /\ stamp < MaxRequests
    /\ LET r == MainReserve(users[uid], amount)
           me == [MIdleTask EXCEPT !.op = "withdraw", !.uid = uid, !.amt = amount,
                                   !.type = "withdraw", !.w0 = users[uid]]
       IN IF r.ok
          THEN /\ mtask' = [mtask EXCEPT ![t] =
                              [me EXCEPT !.pc = "m_user_load", !.rid = stamp + 1,
                                         !.user = r.w]]
               /\ stamp' = stamp + 1
          ELSE /\ mtask' = [mtask EXCEPT ![t] = MFinish(me, r.reason)]
               /\ stamp' = stamp
    /\ UNCHANGED <<users, pending, ledgerVars, botVars, invVars, storeVars>>

\* DataManager.save_user: users = await load_data(USERS_FILE, {}).
MUserLoad(t) ==
    /\ mtask[t].pc = "m_user_load"
    /\ mtask' = [mtask EXCEPT ![t] = [mtask[t] EXCEPT !.pc = "m_user_save",
                                                      !.usnap = users]]
    /\ UNCHANGED <<users, pending, stamp, mstarted, ledgerVars, botVars, invVars, storeVars>>

\* DataManager.save_user: users[str(user.user_id)] = user.to_dict();
\* await save_data(USERS_FILE, users).
MUserSave(t) ==
    /\ mtask[t].pc = "m_user_save"
    /\ users' = [mtask[t].usnap EXCEPT ![mtask[t].uid] = mtask[t].user]
    /\ mtask' = [mtask EXCEPT ![t] =
                   [mtask[t] EXCEPT !.pc = IF mtask[t].op = "withdraw"
                                           THEN "m_req_load" ELSE "m_pend_save",
                                    !.usnap = NewUsers]]
    /\ UNCHANGED <<pending, stamp, mstarted, ledgerVars, botVars, invVars, storeVars>>

\* withdraw_confirm_callback: pending = await DataManager.get_pending_requests().
MReqLoad(t) ==
    /\ mtask[t].pc = "m_req_load"
    /\ mtask' = [mtask EXCEPT ![t] = [mtask[t] EXCEPT !.pc = "m_req_save",
                                                      !.psnap = pending]]
    /\ UNCHANGED <<users, pending, stamp, mstarted, ledgerVars, botVars, invVars, storeVars>>

\* pending[request_id] = pending_request;
\* await DataManager.save_pending_requests(pending).
MReqSave(t) ==
    /\ mtask[t].pc = "m_req_save"
    /\ pending' = [mtask[t].psnap EXCEPT ![mtask[t].rid] =
                      PendingRequest(mtask[t].uid, mtask[t].type, mtask[t].amt)]
    /\ mtask' = [mtask EXCEPT ![t] = MFinish(mtask[t], "ok")]
    /\ UNCHANGED <<users, stamp, mstarted, ledgerVars, botVars, invVars, storeVars>>

\* handle_approve_request / handle_reject_request / cancel_withdraw_callback:
\* pending = await DataManager.get_pending_requests() and the entry check.
\* actor is query.from_user.id.
MDecideRead(t, op, rid, actor, alone) ==
    /\ MCanStart(t, alone)
    /\ LET request == pending[rid]
           me == [MIdleTask EXCEPT !.op = op, !.rid = rid, !.actor = actor]
       IN mtask' = [mtask EXCEPT ![t] =
                      IF MainRefused(op, request)
                      THEN MFinish(me, "not_pending")
                      ELSE [me EXCEPT !.pc = "m_user_get", !.uid = request.user_id,
                                      !.type = request.type, !.amt = request.amount,
                                      !.psnap = pending,
                                      !.w0 = users[request.user_id]]]
    /\ UNCHANGED <<users, pending, stamp, ledgerVars, botVars, invVars, storeVars>>

\* user = await DataManager.get_user(request.user_id), then the change to the
\* copy, and request.status and request.handled_by on the loaded requests.
MUserGet(t) ==
    /\ mtask[t].pc = "m_user_get"
    /\ LET me == mtask[t]
       IN mtask' = [mtask EXCEPT ![t] =
                      [me EXCEPT !.pc = IF MainTouchesUser(me.op, me.type)
                                        THEN "m_user_load" ELSE "m_pend_save",
                                 !.user = MainUserEffect(me.op, me.type, users[me.uid], me.amt),
                                 !.psnap = [me.psnap EXCEPT
                                              ![me.rid].status = MainStatus(me.op),
                                              ![me.rid].handled_by = me.actor]]]
    /\ UNCHANGED <<users, pending, stamp, mstarted, ledgerVars, botVars, invVars, storeVars>>

\* await DataManager.save_pending_requests(pending).
MPendSave(t) ==
    /\ mtask[t].pc = "m_pend_save"
    /\ pending' = mtask[t].psnap
    /\ mtask' = [mtask EXCEPT ![t] = MFinish(mtask[t], "ok")]
    /\ UNCHANGED <<users, stamp, mstarted, ledgerVars, botVars, invVars, storeVars>>

MReturn(t) ==
    /\ mtask[t].pc = "done"
    /\ mtask' = [mtask EXCEPT ![t] = MIdleTask]
    /\ UNCHANGED <<users, pending, stamp, mstarted, ledgerVars, botVars, invVars, storeVars>>

MainSteps(t) ==
    \/ MUserLoad(t)
    \/ MUserSave(t)
    \/ MReqLoad(t)
    \/ MReqSave(t)
    \/ MUserGet(t)
    \/ MPendSave(t)
    \/ MReturn(t)

MainStarts(t, alone) ==
    \/ \E u \in Users, a \in PositiveAmounts : MTopupRead(t, u, a, alone)
    \/ \E u \in Users, a \in PositiveAmounts : MWithdrawRead(t, u, a, alone)
    \/ \E op \in {"approve", "reject"}, i \in ReqIds :
          MDecideRead(t, op, i, AdminId, alone)
    \/ \E i \in ReqIds, actor \in Actors : MDecideRead(t, "cancel", i, actor, alone)

(***************************************************************************)
(* The account pool of main.py.  A user types a name, the handler suggests *)
(* the closest unassigned account of accounts.json, and a confirmation     *)
(* assigns it: accounts.json gets assigned_to, the user's record in        *)
(* users.json gets eshansy_account.  A name is a sequence of characters.   *)
(* Each user has at most one handler in flight; handlers of different      *)
(* users overlap at the awaited store calls.                               *)
(***************************************************************************)
\* Users asking for an account.
NumClaimants == 2

Claimants == 1 .. NumClaimants

NoName == <<>>

\* The usernames the administrator has put in the pool, in stored order.
PoolNames == << <<"a", "b">>, <<"a", "c">> >>

\* What a user may type.
Texts == { <<"a", "b">>, <<" ", "A", "c">>, <<"a">>, <<"z">>,
           <<"j", "o", "h", "n">> }

\* The names typed in the runs that go on to confirm and delete.
PoolTexts == { <<"a", "b">>, <<" ", "A", "c">> }

\* str.lower() on one character.
Lower(ch) ==
    IF ch = "A" THEN "a" ELSE IF ch = "B" THEN "b" ELSE IF ch = "C" THEN "c"
    ELSE IF ch = "Z" THEN "z" ELSE ch

RECURSIVE StripLeft(_)
StripLeft(x) == IF x # <<>> /\ Head(x) = " " THEN StripLeft(Tail(x)) ELSE x

RECURSIVE StripRight(_)
StripRight(x) ==
    IF x # <<>> /\ x[Len(x)] = " " THEN StripRight(SubSeq(x, 1, Len(x) - 1)) ELSE x

\* update.message.text.strip().lower()
Normalise(text) ==
    LET x == StripRight(StripLeft(text))
    IN [i \in 1 .. Len(x) |-> Lower(x[i])]

\* Length of the common run of a from offset i and b from offset j, inside
\* a[i:ahi] and b[j:bhi] (offsets count from 0).
RECURSIVE RunLen(_, _, _, _, _, _)
RunLen(a, b, i, j, ahi, bhi) ==
    IF i >= ahi \/ j >= bhi THEN 0
    ELSE IF a[i + 1] # b[j + 1] THEN 0
    ELSE 1 + RunLen(a, b, i + 1, j + 1, ahi, bhi)

\* SequenceMatcher.find_longest_match: the longest common block of
\* a[alo:ahi] and b[blo:bhi], the one starting earliest in a, and of those
\* the one starting earliest in b; (alo, blo, 0) when there is none.
FindLongestMatch(a, b, alo, ahi, blo, bhi) ==
    LET Blocks == {[i |-> i, j |-> j, k |-> RunLen(a, b, i, j, ahi, bhi)] :
                      i \in alo .. ahi - 1, j \in blo .. bhi - 1}
        Longest == {m \in Blocks : m.k > 0 /\ \A n \in Blocks : n.k <= m.k}
        FirstA == {m \in Longest : \A n \in Longest : m.i <= n.i}
    IN IF Longest = {} THEN [i |-> alo, j |-> blo, k |-> 0]
       ELSE CHOOSE m \in FirstA : \A n \in FirstA : m.j <= n.j

\* Total size of the matching blocks: the longest block, then the same to
\* its left and to its right.
RECURSIVE MatchCount(_, _, _, _, _, _)
MatchCount(a, b, alo, ahi, blo, bhi) ==
    LET m == FindLongestMatch(a, b, alo, ahi, blo, bhi)
    IN IF m.k = 0 THEN 0
       ELSE m.k + MatchCount(a, b, alo, m.i, blo, m.j)
                + MatchCount(a, b, m.i + m.k, ahi, m.j + m.k, bhi)

\* SequenceMatcher(None, a, b).ratio() = 2.0 * matches / (len(a) + len(b)),
\* kept as the fraction num / den (1.0 when both are empty).
Ratio(a, b) ==
    IF Len(a) + Len(b) = 0 THEN [num |-> 1, den |-> 1]
    ELSE [num |-> 2 * MatchCount(a, b, 0, Len(a), 0, Len(b)),
          den |-> Len(a) + Len(b)]

\* r > q on fractions.
Greater_OrEqual(r, q) == r.num * q.den >= q.num * r.den

Greater(r, q) == r.num * q.den > q.num * r.den

\* The loop over the available usernames, from position k on:
\* "if ratio > best_ratio" keeps the first of equally close names.
RECURSIVE BestFrom(_, _, _, _)
BestFrom(text, names, k, best) ==
    IF k > Len(names) THEN best
    ELSE LET r == Ratio(text, names[k])
         IN BestFrom(text, names, k + 1,
                     IF Greater(r, best.ratio)
                     THEN [match |-> names[k], ratio |-> r]
                     ELSE best)

\* "not acc.assigned_to": the account can be given out.
IsAvailable(acc) == acc.assigned_to = 0

\* The unassigned usernames of an accounts dictionary, in stored order.
Available(accs) ==
    LET Free == SelectSeq(accs, IsAvailable)
    IN [i \in 1 .. Len(Free) |-> Free[i].username]

\* best_match of eshansy_create_account_handler; NoName stands for None.
BestMatch(text, accs) ==
    BestFrom(text, Available(accs), 1,
             [match |-> NoName, ratio |-> [num |-> 0, den |-> 1]]).match

\* accounts.get(username): the position of the account, 0 when absent.
FindAccount(accs, username) ==
    IF \E i \in 1 .. Len(accs) : accs[i].username = username
    THEN CHOOSE i \in 1 .. Len(accs) : accs[i].username = username
    ELSE 0

\* EshansyAccount after "account.assigned_to = user_id; account.assigned_at
\* = datetime.now().isoformat()"; assigned_at 1 stands for a timestamp.
Assign(acc, user_id) == [acc EXCEPT !.assigned_to = user_id, !.assigned_at = 1]

\* Variant that clears assigned_to and keeps the timestamp.
Unassign_KeepStamp(acc) == [acc EXCEPT !.assigned_to = 0]

\* "account.assigned_to = None; account.assigned_at = None"
Unassign(acc) == [acc EXCEPT !.assigned_to = 0, !.assigned_at = 0]

\* EshansyAccount.__init__: a new account is unassigned.
NewAccount(username) ==
    [username |-> username, assigned_to |-> 0, assigned_at |-> 0]

IIdleTask ==
    [pc |-> "idle", op |-> "none", username |-> NoName, accounts |-> <<>>,
     user |-> NoName, usnap |-> <<>>, res |-> "none"]

NotAsked == [text |-> NoName, reply |-> "none", match |-> NoName]

InitInv ==
    /\ accounts = [i \in 1 .. Len(PoolNames) |-> NewAccount(PoolNames[i])]
    /\ eaccount = [c \in Claimants |-> NoName]
    /\ suggested = [c \in Claimants |-> NoName]
    /\ asked = [c \in Claimants |-> NotAsked]
    /\ itask = [c \in Claimants |-> IIdleTask]

\* eshansy_create_account_handler: one read of accounts.json, the search,
\* the suggestion kept in the user's conversation data, and the reply:
\* no account available, a suggestion, or nothing suitable found.
ISuggest(c, text) ==
    /\ itask[c].pc = "idle"
    /\ LET best == BestMatch(Normalise(text), accounts)
       IN /\ suggested' = IF best # NoName THEN [suggested EXCEPT ![c] = best]
                          ELSE suggested
          /\ asked' = [asked EXCEPT ![c] =
                [text |-> text,
                 reply |-> IF Available(accounts) = <<>> THEN "no_accounts"
                           ELSE IF best # NoName THEN "suggest"
                           ELSE "not_found",
                 match |-> best]]
    /\ UNCHANGED <<accounts, eaccount, itask, ledgerVars, botVars, mainVars, storeVars>>

\* eshansy_confirm_callback up to the availability check: get_accounts, then
\* "if not account or account.assigned_to" refuses; otherwise assigned_to
\* is set on the handler's own copy of the dictionary.
IConfirmRead(c) ==
    /\ itask[c].pc = "idle"
    /\ LET username == suggested[c]
           k == FindAccount(accounts, username)
       IN itask' = [itask EXCEPT ![c] =
             IF username = NoName
             THEN [IIdleTask EXCEPT !.pc = "done", !.op = "confirm", !.res = "error"]
             ELSE IF k = 0 \/ accounts[k].assigned_to # 0
             THEN [IIdleTask EXCEPT !.pc = "done", !.op = "confirm",
                                    !.username = username, !.res = "unavailable"]
             ELSE [IIdleTask EXCEPT !.pc = "i_user_get", !.op = "confirm",
                      !.username = username,
                      !.accounts = [accounts EXCEPT ![k] = Assign(accounts[k], c)]]]
    /\ asked' = [asked EXCEPT ![c] = NotAsked]
    /\ UNCHANGED <<accounts, eaccount, suggested, ledgerVars, botVars, mainVars, storeVars>>

\* get_user, then user.eshansy_account = username on the handler's copy.
IUserGet(c) ==
    /\ itask[c].pc = "i_user_get"
    /\ itask' = [itask EXCEPT ![c].pc = "i_acc_save",
                              ![c].user = itask[c].username]
    /\ UNCHANGED <<accounts, eaccount, suggested, asked, ledgerVars, botVars, mainVars, storeVars>>

\* eshansy_delete_callback, get_user: without an account there is nothing
\* to delete.
IDeleteRead(c) ==
    /\ itask[c].pc = "idle"
    /\ itask' = [itask EXCEPT ![c] =
          IF eaccount[c] = NoName
          THEN [IIdleTask EXCEPT !.pc = "done", !.op = "delete", !.res = "no_account"]
          ELSE [IIdleTask EXCEPT !.pc = "d_acc_get", !.op = "delete",
                                 !.username = eaccount[c]]]
    /\ asked' = [asked EXCEPT ![c] = NotAsked]
    /\ UNCHANGED <<accounts, eaccount, suggested, ledgerVars, botVars, mainVars, storeVars>>

\* eshansy_delete_callback, get_accounts: the user's account is freed on the
\* handler's copy, to be saved; an account no longer in the pool is skipped.
\* user.eshansy_account = None is then saved with save_user.
IDeleteAccGet(c) ==
    /\ itask[c].pc = "d_acc_get"
    /\ LET k == FindAccount(accounts, itask[c].username)
       IN itask' = [itask EXCEPT ![c] =
             IF k # 0
             THEN [itask[c] EXCEPT !.pc = "i_acc_save", !.user = NoName,
                      !.accounts = [accounts EXCEPT ![k] = Unassign(accounts[k])]]
             ELSE [itask[c] EXCEPT !.pc = "i_user_load", !.user = NoName]]
    /\ UNCHANGED <<accounts, eaccount, suggested, asked, ledgerVars, botVars, mainVars, storeVars>>

\* save_accounts(accounts): the handler's dictionary replaces accounts.json.
IAccSave(c) ==
    /\ itask[c].pc = "i_acc_save"
    /\ accounts' = itask[c].accounts
    /\ itask' = [itask EXCEPT ![c].pc = "i_user_load"]
    /\ UNCHANGED <<eaccount, suggested, asked, ledgerVars, botVars, mainVars, storeVars>>

\* save_user, first await: users.json is loaded.
IUserLoad(c) ==
    /\ itask[c].pc = "i_user_load"
    /\ itask' = [itask EXCEPT ![c].pc = "i_user_save", ![c].usnap = eaccount]
    /\ UNCHANGED <<accounts, eaccount, suggested, asked, ledgerVars, botVars, mainVars, storeVars>>

\* save_user, second await: the loaded dictionary with this user's record
\* replaced is written back.
IUserSave(c) ==
    /\ itask[c].pc = "i_user_save"
    /\ eaccount' = [itask[c].usnap EXCEPT ![c] = itask[c].user]
    /\ itask' = [itask EXCEPT ![c].pc = "done", ![c].res = "ok"]
    /\ UNCHANGED <<accounts, suggested, asked, ledgerVars, botVars, mainVars, storeVars>>

\* The handler returns.
IReturn(c) ==
    /\ itask[c].pc = "done"
    /\ itask' = [itask EXCEPT ![c] = IIdleTask]
    /\ UNCHANGED <<accounts, eaccount, suggested, asked, ledgerVars, botVars, mainVars, storeVars>>

\* Pools for the search on its own: stored names in stored order, some
\* with capitals, as accounts.json holds whatever names were put in it.
NameLists ==
    { PoolNames,
      << <<"j", "o", "h", "n", "n", "y", "7", "7">>, <<"a", "l", "i", "c", "e">> >>,
      << <<"z", "z", "z">> >>,
      << >>,
      << <<"a", "b", "x">>, <<"A", "B">> >> }

\* A pool of the given names in which account k, if any, is held by user 1.
PoolOf(names, k) ==
    [i \in 1 .. Len(names) |->
        IF i = k THEN Assign(NewAccount(names[i]), 1) ELSE NewAccount(names[i])]

InitMatchInv ==
    /\ \E names \in NameLists : \E k \in 0 .. Len(names) :
          /\ accounts = PoolOf(names, k)
          /\ eaccount = [c \in Claimants |->
                            IF c = 1 /\ k # 0 THEN names[k] ELSE NoName]
    /\ suggested = [c \in Claimants |-> NoName]
    /\ asked = [c \in Claimants |-> NotAsked]
    /\ itask = [c \in Claimants |-> IIdleTask]

InvSteps(c) ==
    \/ IUserGet(c)
    \/ IDeleteAccGet(c)
    \/ IAccSave(c)
    \/ IUserLoad(c)
    \/ IUserSave(c)
    \/ IReturn(c)

(***************************************************************************)
(* The document store of main.py: atomic_write and load_data on the data   *)
(* files.  A document is a JSON value, a file's text is the sequence of    *)
(* tokens json.dumps writes for it (the white space of indent=2 lies       *)
(* between tokens and json.loads skips it).  Every await of the two        *)
(* functions is a step.  Nothing in atomic_write flushes or syncs, so a    *)
(* file installed by os.replace is "dirty" until the system has written it *)
(* back, and a crash of the machine may keep any prefix of a dirty text.   *)
(***************************************************************************)
MaxCrashes == 1

\* Tokens of a text that a cut-off write may leave behind, at most.
MaxKept == 1

JsonInts == {-1, 0, 1}

JsonStrs == {"", "1", "a"}

JInt(n) == [kind |-> "int", val |-> n]

JStr(x) == [kind |-> "str", val |-> x]

JList(items) == [kind |-> "list", val |-> items]

\* A dict, its items in insertion order.
JMap(items) == [kind |-> "map", val |-> items]

NoValue == [kind |-> "none", val |-> 0]

\* The "default" every caller of load_data passes: {}.
DefaultDoc == JMap(<<>>)

\* json.dumps of an int.
IntText(n) == ToString(n)

\* Variant that writes a string without its quotes.
StrText_Bare(x) == x

\* json.dumps of a string of plain characters.
StrText(x) == "\"" \o x \o "\""

RECURSIVE Dumps(_)
RECURSIVE DumpItems(_, _)
RECURSIVE DumpMembers(_, _)
\* The list items from position k on, comma separated.
DumpItems(items, k) ==
    IF k > Len(items) THEN <<>>
    ELSE Dumps(items[k]) \o (IF k < Len(items) THEN <<",">> ELSE <<>>)
                         \o DumpItems(items, k + 1)

\* The dict items from position k on: key, colon, value.
DumpMembers(items, k) ==
    IF k > Len(items) THEN <<>>
    ELSE <<StrText(items[k].key), ":">> \o Dumps(items[k].value)
            \o (IF k < Len(items) THEN <<",">> ELSE <<>>)
            \o DumpMembers(items, k + 1)

\* json.dumps(data, indent=2, ensure_ascii=False), as tokens.
Dumps(v) ==
    IF v.kind = "int" THEN <<IntText(v.val)>>
    ELSE IF v.kind = "str" THEN <<StrText(v.val)>>
    ELSE IF v.kind = "list" THEN <<"[">> \o DumpItems(v.val, 1) \o <<"]">>
    ELSE <<"{">> \o DumpMembers(v.val, 1) \o <<"}">>

IntTokens == {IntText(n) : n \in JsonInts}

StrTokens == {StrText(x) : x \in JsonStrs}

TextInt(tok) == CHOOSE n \in JsonInts : IntText(n) = tok

TextStr(tok) == CHOOSE x \in JsonStrs : StrText(x) = tok

ParseError == [ok |-> FALSE, val |-> NoValue, next |-> 0]

Parsed(v, next) == [ok |-> TRUE, val |-> v, next |-> next]

RECURSIVE ParseValue(_, _)
RECURSIVE ParseElems(_, _, _)
RECURSIVE ParseMembers(_, _, _)
\* The items of a list from token i on, up to the closing bracket.
ParseElems(toks, i, acc) ==
    LET e == ParseValue(toks, i)
    IN IF ~ e.ok \/ e.next > Len(toks) THEN ParseError
       ELSE IF toks[e.next] = "," THEN ParseElems(toks, e.next + 1, Append(acc, e.val))
       ELSE IF toks[e.next] = "]" THEN Parsed(JList(Append(acc, e.val)), e.next + 1)
       ELSE ParseError

\* The items of a dict from token i on, up to the closing brace.
ParseMembers(toks, i, acc) ==
    IF i + 1 > Len(toks) \/ toks[i] \notin StrTokens THEN ParseError
    ELSE IF toks[i + 1] # ":" THEN ParseError
    ELSE LET e == ParseValue(toks, i + 2)
             item == [key |-> TextStr(toks[i]), value |-> e.val]
         IN IF ~ e.ok \/ e.next > Len(toks) THEN ParseError
            ELSE IF toks[e.next] = "," THEN ParseMembers(toks, e.next + 1, Append(acc, item))
            ELSE IF toks[e.next] = "}" THEN Parsed(JMap(Append(acc, item)), e.next + 1)
            ELSE ParseError

\* One JSON value starting at token i.
ParseValue(toks, i) ==
    IF i > Len(toks) THEN ParseError
    ELSE IF toks[i] \in IntTokens THEN Parsed(JInt(TextInt(toks[i])), i + 1)
    ELSE IF toks[i] \in StrTokens THEN Parsed(JStr(TextStr(toks[i])), i + 1)
    ELSE IF toks[i] = "[" THEN
         IF i + 1 <= Len(toks) /\ toks[i + 1] = "]" THEN Parsed(JList(<<>>), i + 2)
         ELSE ParseElems(toks, i + 1, <<>>)
    ELSE IF toks[i] = "{" THEN
         IF i + 1 <= Len(toks) /\ toks[i + 1] = "}" THEN Parsed(JMap(<<>>), i + 2)
         ELSE ParseMembers(toks, i + 1, <<>>)
    ELSE ParseError

\* json.loads: one value and nothing after it, else JSONDecodeError.
Loads(toks) ==
    LET e == ParseValue(toks, 1)
    IN IF e.ok /\ e.next = Len(toks) + 1 THEN e ELSE ParseError

\* Documents with nesting: scalars, lists and dicts of scalars and of small
\* lists and dicts.
JsonLeaf == {JInt(n) : n \in JsonInts} \cup {JStr(x) : x \in JsonStrs}

JsonInner ==
    JsonLeaf \cup {JList(<<>>), JList(<<JInt(1)>>), JMap(<<>>),
                   JMap(<<[key |-> "a", value |-> JInt(0)]>>)}

JsonLists ==
    {JList(<<>>)} \cup {JList(<<a>>) : a \in JsonInner}
                  \cup {JList(<<a, b>>) : a \in JsonInner, b \in JsonInner}

JsonMaps ==
    {JMap(<<>>)}
       \cup {JMap(<<[key |-> k, value |-> a]>>) : k \in {"a", "1"}, a \in JsonInner}
       \cup {JMap(<<[key |-> k, value |-> a], [key |-> l, value |-> b]>>) :
                k \in {"a"}, l \in {"1"}, a \in JsonInner, b \in JsonInner}

JsonValues == JsonLeaf \cup JsonLists \cup JsonMaps

\* The documents the concurrent runs write.
DocValues == {DefaultDoc, JMap(<<[key |-> "a", value |-> JInt(1)]>>)}

\* Two of the data files, e.g. users.json and pending.json.
Files == {"users", "pending"}

NoFile == [exists |-> FALSE, text |-> <<>>]

FileOf(text) == [exists |-> TRUE, text |-> text]

\* What may be left of a text whose writing was cut off: its first tokens.
Torn(text) ==
    {SubSeq(text, 1, n) : n \in {k \in 0 .. MaxKept : k < Len(text)}}

IdleSTask ==
    [pc |-> "idle", op |-> "none", file |-> "none", data |-> NoValue,
     res |-> "none", ret |-> NoValue]

InitStore ==
    /\ disk = [f \in Files |-> NoFile]
    /\ tmp = [f \in Files |-> NoFile]
    /\ dirty = {}
    /\ lock = [f \in Files |-> 0]
    /\ stask = [t \in Tasks |-> IdleSTask]
    /\ lastw = [f \in Files |-> NoValue]
    /\ crashes = 0
    /\ failures = 0

\* atomic_write(file_path, data) is called and reaches "async with lock".
SWriteStart(t, f, v) ==
    /\ stask[t].pc = "idle"
    /\ stask' = [stask EXCEPT ![t] =
          [IdleSTask EXCEPT !.pc = "w_lock", !.op = "write", !.file = f, !.data = v]]
    /\ UNCHANGED <<disk, tmp, dirty, lock, lastw, crashes, failures,
                   ledgerVars, botVars, mainVars, invVars>>

\* Variant of load_data that reads without the file's lock (its branch for
\* a path that has no lock).
SLoadStart_NoLock(t, f) ==
    /\ stask[t].pc = "idle"
    /\ stask' = [stask EXCEPT ![t] =
          IF ~ disk[f].exists
          THEN [IdleSTask EXCEPT !.pc = "done", !.op = "load", !.file = f,
                                 !.res = "absent", !.ret = DefaultDoc]
          ELSE [IdleSTask EXCEPT !.pc = "r_read", !.op = "load", !.file = f]]
    /\ UNCHANGED <<disk, tmp, dirty, lock, lastw, crashes, failures,
                   ledgerVars, botVars, mainVars, invVars>>

\* load_data(file_path, {}) is called: a file that does not exist gives a
\* copy of the default at once, nothing is written; otherwise the call
\* reaches "async with lock".
SLoadStart(t, f) ==
    /\ stask[t].pc = "idle"
    /\ stask' = [stask EXCEPT ![t] =
          IF ~ disk[f].exists
          THEN [IdleSTask EXCEPT !.pc = "done", !.op = "load", !.file = f,
                                 !.res = "absent", !.ret = DefaultDoc]
          ELSE [IdleSTask EXCEPT !.pc = "r_lock", !.op = "load", !.file = f]]
    /\ UNCHANGED <<disk, tmp, dirty, lock, lastw, crashes, failures,
                   ledgerVars, botVars, mainVars, invVars>>

\* Variant with one lock for all files.
SAcquire_OneLock(t) ==
    /\ stask[t].pc \in {"w_lock", "r_lock"}
    /\ \A f \in Files : lock[f] = 0
    /\ lock' = [lock EXCEPT ![stask[t].file] = t]
    /\ stask' = [stask EXCEPT ![t].pc =
                    IF stask[t].pc = "w_lock" THEN "w_open" ELSE "r_read"]
    /\ UNCHANGED <<disk, tmp, dirty, lastw, crashes, failures,
                   ledgerVars, botVars, mainVars, invVars>>

\* "async with lock": the lock of the file, file_locks[file_path], is taken
\* when it is free.
SAcquire(t) ==
    /\ stask[t].pc \in {"w_lock", "r_lock"}
    /\ lock[stask[t].file] = 0
    /\ lock' = [lock EXCEPT ![stask[t].file] = t]
    /\ stask' = [stask EXCEPT ![t].pc =
                    IF stask[t].pc = "w_lock" THEN "w_open" ELSE "r_read"]
    /\ UNCHANGED <<disk, tmp, dirty, lastw, crashes, failures,
                   ledgerVars, botVars, mainVars, invVars>>

\* aiofiles.open(temp_file, 'w'): the .tmp file is created or emptied.
SOpenTmp(t) ==
    /\ stask[t].pc = "w_open"
    /\ tmp' = [tmp EXCEPT ![stask[t].file] = FileOf(<<>>)]
    /\ stask' = [stask EXCEPT ![t].pc = "w_write"]
    /\ UNCHANGED <<disk, dirty, lock, lastw, crashes, failures,
                   ledgerVars, botVars, mainVars, invVars>>

\* f.write(json.dumps(data)) and the close of the .tmp file.
SWriteTmp(t) ==
    /\ stask[t].pc = "w_write"
    /\ tmp' = [tmp EXCEPT ![stask[t].file] = FileOf(Dumps(stask[t].data))]
    /\ stask' = [stask EXCEPT ![t].pc = "w_replace"]
    /\ UNCHANGED <<disk, dirty, lock, lastw, crashes, failures,
                   ledgerVars, botVars, mainVars, invVars>>

\* os.replace(temp_file, file_path): the .tmp file becomes the data file.
SReplace(t) ==
    /\ stask[t].pc = "w_replace"
    /\ tmp[stask[t].file].exists
    /\ disk' = [disk EXCEPT ![stask[t].file] = tmp[stask[t].file]]
    /\ tmp' = [tmp EXCEPT ![stask[t].file] = NoFile]
    /\ dirty' = dirty \cup {stask[t].file}
    /\ lastw' = [lastw EXCEPT ![stask[t].file] = stask[t].data]
    /\ stask' = [stask EXCEPT ![t].pc = "release", ![t].res = "ok"]
    /\ UNCHANGED <<lock, crashes, failures, ledgerVars, botVars, mainVars, invVars>>

\* A step of the write raises OSError (disk full, permission): opening the
\* .tmp file, writing it (what was written so far stays in it), or the
\* replace.  The exception leaves through "async with lock".
SWriteFail(t) ==
    /\ stask[t].pc \in {"w_open", "w_write", "w_replace"}
    /\ IF stask[t].pc = "w_write"
       THEN \E text \in Torn(Dumps(stask[t].data)) :
               tmp' = [tmp EXCEPT ![stask[t].file] = FileOf(text)]
       ELSE tmp' = tmp
    /\ stask' = [stask EXCEPT ![t].pc = "release", ![t].res = "io_error"]
    /\ UNCHANGED <<disk, dirty, lock, lastw, crashes, failures,
                   ledgerVars, botVars, mainVars, invVars>>

\* f.read() and "json.loads(content) if content else default.copy()": an
\* empty file gives the default, a text that does not parse raises
\* JSONDecodeError out of load_data.  Nothing is written.
SRead(t) ==
    /\ stask[t].pc = "r_read"
    /\ LET content == disk[stask[t].file].text
           e == Loads(content)
       IN stask' = [stask EXCEPT ![t] =
             IF content = <<>>
             THEN [stask[t] EXCEPT !.pc = "release", !.res = "empty", !.ret = DefaultDoc]
             ELSE IF e.ok
             THEN [stask[t] EXCEPT !.pc = "release", !.res = "ok", !.ret = e.val]
             ELSE [stask[t] EXCEPT !.pc = "release", !.res = "json_error"]]
    /\ UNCHANGED <<disk, tmp, dirty, lock, lastw, crashes, failures,
                   ledgerVars, botVars, mainVars, invVars>>

\* Variant of the end of "async with lock" that leaves the lock taken.
SRelease_KeepLock(t) ==
    /\ stask[t].pc = "release"
    /\ stask' = [stask EXCEPT ![t].pc = "done"]
    /\ UNCHANGED <<disk, tmp, dirty, lock, lastw, crashes, failures,
                   ledgerVars, botVars, mainVars, invVars>>

\* The end of "async with lock", by return or by exception.
SRelease(t) ==
    /\ stask[t].pc = "release"
    /\ lock' = [lock EXCEPT ![stask[t].file] = 0]
    /\ stask' = [stask EXCEPT ![t].pc = "done"]
    /\ UNCHANGED <<disk, tmp, dirty, lastw, crashes, failures,
                   ledgerVars, botVars, mainVars, invVars>>

\* The caller has the result; the task is free for the next call.
SReturn(t) ==
    /\ stask[t].pc = "done"
    /\ stask' = [stask EXCEPT ![t] = IdleSTask]
    /\ UNCHANGED <<disk, tmp, dirty, lock, lastw, crashes, failures,
                   ledgerVars, botVars, mainVars, invVars>>

\* The system writes a file's text back to stable storage.
SFlush(f) ==
    /\ f \in dirty
    /\ dirty' = dirty \ {f}
    /\ UNCHANGED <<disk, tmp, lock, stask, lastw, crashes, failures,
                   ledgerVars, botVars, mainVars, invVars>>

\* The machine crashes and the program is started again: every call is
\* gone, the locks are new, and a dirty file holds its text or only the
\* beginning of it.
SCrash ==
    /\ crashes < MaxCrashes
    /\ crashes' = crashes + 1
    /\ failures' = failures
    /\ disk' \in [Files -> {NoFile} \cup {disk[f] : f \in Files}
                              \cup {FileOf(x) : x \in UNION {Torn(disk[f].text) : f \in dirty}}]
    /\ \A f \in Files :
          \/ disk'[f] = disk[f]
          \/ f \in dirty /\ disk'[f].exists /\ disk'[f].text \in Torn(disk[f].text)
    /\ dirty' = {}
    /\ lock' = [f \in Files |-> 0]
    /\ stask' = [t \in Tasks |-> IdleSTask]
    /\ UNCHANGED <<tmp, lastw, ledgerVars, botVars, mainVars, invVars>>

StoreSteps(t) ==
    \/ SAcquire(t)
    \/ SOpenTmp(t)
    \/ SWriteTmp(t)
    \/ SReplace(t)
    \/ SRead(t)
    \/ SRelease(t)
    \/ SReturn(t)

(***************************************************************************)
(* Specifications.  A run is a run of one of the two implementations: the  *)
(* handlers of src/bot step while the documents of main.py are untouched,  *)
(* and the other way round.                                                *)
(*   SpecLedger  the ledger functions called one after another;            *)
(*   Spec        the handlers as concurrent tasks;                         *)
(*   SpecSeq     the same handlers, one at a time;                         *)
(*   SpecInv     the account handlers of main.py as concurrent tasks;      *)
(*   SpecMatch   the search for the closest account, on a range of pools;  *)
(*   SpecStore   atomic_write and load_data as concurrent tasks, with      *)
(*               failing writes;                                           *)
(*   SpecCrash   the same calls one at a time, with a crash;               *)
(*   SpecJson    one document written and read back.                       *)
(***************************************************************************)
NextLedger ==
    \/ \E a \in AmountInputs : LAddBalance(a)
    \/ \E a \in AmountInputs : LReserve(a)
    \/ \E a \in AmountInputs : LRelease(a)
    \/ \E a \in AmountInputs : LFinalize(a)
    \/ \E a \in AmountInputs : LMainReserve(a)

InitInputs == InitLedger /\ InitBot /\ InitMain /\ InitInv /\ InitStore

SpecLedger == InitInputs /\ [][NextLedger]_vars

NextBot(alone) == \E t \in Tasks : BotStarts(t, alone) \/ BotSteps(t)

NextMain(alone) == \E t \in Tasks : MainStarts(t, alone) \/ MainSteps(t)

Next ==
    \/ InitMain /\ NextBot(FALSE)
    \/ InitBot /\ NextMain(FALSE)

Init == IdleLedger /\ InitBot /\ InitMain /\ InitInv /\ InitStore

Spec == Init /\ [][Next]_vars

NextSeq ==
    \/ InitMain /\ NextBot(TRUE)
    \/ InitBot /\ NextMain(TRUE)

SpecSeq == Init /\ [][NextSeq]_vars

\* Handlers that a failed write ends in one run, at most.
MaxFailures == 1

\* A write of a bot handler raises (storage.save_wallet, save_orders):
\* nothing is written and the handler ends there, _approve_order and
\* _reject_order by their "except Exception", the others in the
\* application's error handler.
BWriteFail(t) ==
    /\ task[t].pc \in {"create_save", "reserve_save", "ledger_save",
                       "status_save", "adjust_save"}
    /\ failures < MaxFailures
    /\ failures' = failures + 1
    /\ task' = [task EXCEPT ![t] = Finish(task[t], "io_error", 0)]
    /\ UNCHANGED <<wallet, orders_obj, started, ledgerVars, mainVars, invVars,
                   disk, tmp, dirty, lock, stask, lastw, crashes>>

\* atomic_write raises inside save_user or save_pending_requests: the file
\* is as it was and the exception ends the handler in error_handler.
MWriteFail(t) ==
    /\ mtask[t].pc \in {"m_user_save", "m_req_save", "m_pend_save"}
    /\ failures < MaxFailures
    /\ failures' = failures + 1
    /\ mtask' = [mtask EXCEPT ![t] = MFinish(mtask[t], "io_error")]
    /\ UNCHANGED <<users, pending, stamp, mstarted, ledgerVars, botVars, invVars,
                   disk, tmp, dirty, lock, stask, lastw, crashes>>

\* The handlers one at a time, each write either succeeding or failing.
NextFail ==
    \/ InitMain /\ (NextBot(TRUE) \/ \E t \in Tasks : BWriteFail(t))
    \/ InitBot /\ (NextMain(TRUE) \/ \E t \in Tasks : MWriteFail(t))

SpecFail == Init /\ [][NextFail]_vars

NextInv ==
    \/ \E c \in Claimants, text \in PoolTexts : ISuggest(c, text)
    \/ \E c \in Claimants : IConfirmRead(c)
    \/ \E c \in Claimants : IDeleteRead(c)
    \/ \E c \in Claimants : InvSteps(c)

SpecInv == Init /\ [][NextInv]_vars

NextMatch == \E c \in Claimants, text \in Texts : ISuggest(c, text)

InitMatch == IdleLedger /\ InitBot /\ InitMain /\ InitMatchInv /\ InitStore

SpecMatch == InitMatch /\ [][NextMatch]_vars

NextStore ==
    \/ \E t \in Tasks, f \in Files, v \in DocValues : SWriteStart(t, f, v)
    \/ \E t \in Tasks, f \in Files : SLoadStart(t, f)
    \/ \E t \in Tasks : StoreSteps(t)
    \/ \E t \in Tasks : SWriteFail(t)

SpecStore == Init /\ [][NextStore]_vars

\* The store calls under the event loop's scheduling: a task that can step
\* does step, and a task waiting for a lock gets it (asyncio.Lock wakes its
\* waiters in the order they came, so a waiter is not passed over for ever).
FairStore ==
    \A t \in Tasks : WF_vars(StoreSteps(t)) /\ SF_vars(SAcquire(t))

SpecStoreFair == Init /\ [][NextStore]_vars /\ FairStore

\* The calls of one task, one after another, with write-back and a crash.
NextCrash ==
    \/ \E f \in Files, v \in DocValues : SWriteStart(1, f, v)
    \/ \E f \in Files : SLoadStart(1, f)
    \/ StoreSteps(1)
    \/ SWriteFail(1)
    \/ \E f \in Files : SFlush(f)
    \/ SCrash

SpecCrash == Init /\ [][NextCrash]_vars

\* One write of a document to a new file, and reads of it.
NextJson ==
    \/ \E v \in JsonValues : ~ disk["users"].exists /\ SWriteStart(1, "users", v)
    \/ SLoadStart(1, "users")
    \/ StoreSteps(1)

SpecJson == Init /\ [][NextJson]_vars


(***************************************************************************)
(* Properties of the ledger operations (SpecLedger).  lhist records every  *)
(* call with the wallet before and after it.                               *)
(***************************************************************************)
IsReserve(c) == c.op \in {"reserve_withdraw", "main_reserve"}

\* What a reserve of a positive amount must do to a wallet.
ReserveContract(c) ==
    c.amount > 0 =>
       IF c.pre.balance < c.amount
       THEN ~c.ok /\ c.reason = "insufficient" /\ c.post = c.pre
       ELSE /\ c.ok
            /\ c.post = [balance |-> c.pre.balance - c.amount,
                         hold |-> c.pre.hold + c.amount]

\* The boundary cases: the whole balance can be reserved, one more cannot.
ReserveBoundary(c) ==
    /\ c.amount > 0 /\ c.amount = c.pre.balance => c.ok /\ c.post.balance = 0
    /\ c.amount = c.pre.balance + 1 => ~c.ok /\ c.post = c.pre

\* C4: a reserve of a > 0 fails with "insufficient" and leaves the wallet
\* untouched when balance < a, and otherwise succeeds with balance - a and
\* hold + a whatever the hold is; reserving exactly the balance succeeds and
\* leaves balance 0, reserving balance + 1 fails.  Stated of both reserves,
\* reserve_withdraw of wallet.py and the inline one of main.py.
C4_Reserve ==
    \A i \in 1 .. Len(lhist) :
       IsReserve(lhist[i]) => ReserveContract(lhist[i]) /\ ReserveBoundary(lhist[i])

\* The same contract of reserve_withdraw of services/wallet.py alone.
C4_ReserveWithdrawOnly ==
    \A i \in 1 .. Len(lhist) :
       lhist[i].op = "reserve_withdraw" =>
          ReserveContract(lhist[i]) /\ ReserveBoundary(lhist[i])

\* A reserve of main.py was refused although the balance covers the amount.
C4_MainRefusesCoveredAmount ==
    \E i \in 1 .. Len(lhist) :
       /\ lhist[i].op = "main_reserve"
       /\ lhist[i].pre.balance >= lhist[i].amount
       /\ lhist[i].pre.hold > 0
       /\ ~lhist[i].ok

\* A successful reserve of a, 0 < a <= balance, immediately followed by `op`
\* of the same amount.
ReserveThen(op) ==
    /\ Len(lhist) = 2
    /\ lhist[1].op = "reserve_withdraw"
    /\ lhist[1].amount > 0
    /\ lhist[1].amount <= lhist[1].pre.balance
    /\ lhist[2].op = op
    /\ lhist[2].amount = lhist[1].amount

\* C5: for every wallet and every a with 0 < a <= balance, reserve(a)
\* immediately followed by release(a) gives back exactly the original
\* (balance, hold) pair.
C5_ReserveReleaseRestores ==
    ReserveThen("release_hold") =>
       /\ lhist[1].ok
       /\ lhist[2].post = lhist[1].pre

C5_Witness ==
    /\ ReserveThen("release_hold")
    /\ lhist[1].pre.hold > 0
    /\ lhist[1].post # lhist[1].pre

\* C6: for every wallet and every a with 0 < a <= balance, reserve(a)
\* followed by settle(a) leaves the hold as it was before the reserve and the
\* balance reduced by exactly a, neither field negative.
C6_ReserveSettle ==
    ReserveThen("finalize_withdraw") =>
       /\ lhist[1].ok
       /\ lhist[2].post.hold = lhist[1].pre.hold
       /\ lhist[2].post.balance = lhist[1].pre.balance - lhist[1].amount
       /\ lhist[2].post.balance >= 0
       /\ lhist[2].post.hold >= 0

C6_Witness ==
    /\ ReserveThen("finalize_withdraw")
    /\ lhist[1].pre.hold > 0
    /\ lhist[2].post.balance = 0

(***************************************************************************)
(* Properties of the handlers (Spec: concurrent, SpecSeq: one at a time).  *)
(***************************************************************************)
TerminalStatus == {"approved", "rejected", "cancelled"}

IsDecide(op) == op \in {"approve", "reject", "cancel"}

Done(r, op) == r.pc = "done" /\ r.op = op

\* The only handlers of the run were two top-up requests and their two
\* approvals, and both approvals have returned.
TwoApprovalsDone ==
    /\ mstarted = 4
    /\ Done(mtask[1], "approve") /\ mtask[1].res = "ok"
    /\ Done(mtask[2], "approve") /\ mtask[2].res = "ok"
    /\ mtask[1].rid # mtask[2].rid
    /\ \A i \in {mtask[1].rid, mtask[2].rid} : pending[i].type = "topup"

\* The amount request i credits to user u.
CreditOf(i, u) == IF pending[i].user_id = u THEN pending[i].amount ELSE 0

\* C1: no lost updates.  After two concurrent read-modify-write credits (the
\* approvals of two top-ups, each a get_user / save_user on users.json) the
\* document is the one a serial order of the two gives: every balance is the
\* initial balance plus the deltas applied to it.
C1_NoLostUpdates ==
    TwoApprovalsDone =>
       \A u \in Users :
          users[u].balance = CreditOf(mtask[1].rid, u) + CreditOf(mtask[2].rid, u)

C1_Witness ==
    /\ TwoApprovalsDone
    /\ \A i \in ReqIds : pending[i].status = "approved"

\* The wallets document after the credit of call x and then of call y.
SerialAdjust(x, y) ==
    LET w1 == [EmptyWallets EXCEPT ![x.uid] = AddBalance(EmptyWallets[x.uid], x.amt)]
    IN [w1 EXCEPT ![y.uid] = AddBalance(w1[y.uid], y.amt)]

\* The only handlers of the run were two credits, and both have returned.
TwoCreditsDone ==
    /\ started = 2
    /\ Done(task[1], "adjust")
    /\ Done(task[2], "adjust")

\* The same of two concurrent add_balance calls of services/wallet.py: the
\* wallets document is the one some serial order of the two gives.
NoLostCredits ==
    TwoCreditsDone =>
       wallet \in {SerialAdjust(task[1], task[2]), SerialAdjust(task[2], task[1])}

\* C2: of the approve / reject / cancel calls issued against one order, in
\* any interleaving, exactly one takes effect: no two calls on the same
\* request both complete with effect, and a top-up is credited once.
C2_ExactlyOneTakesEffect ==
    /\ \A s, t \in Tasks :
          (/\ s # t
           /\ mtask[s].pc = "done" /\ IsDecide(mtask[s].op)
           /\ mtask[t].pc = "done" /\ IsDecide(mtask[t].op)
           /\ mtask[s].rid = mtask[t].rid)
          => ~(mtask[s].res = "ok" /\ mtask[t].res = "ok")
    /\ (/\ mstarted = 3
        /\ pending[1].type = "topup"
        /\ pending[2] = NoRequest
        /\ \A t \in Tasks : mtask[t].pc \in {"idle", "done"})
       => users[pending[1].user_id].balance <= pending[1].amount

\* Two approvals of one top-up request have both returned.
C2_Witness ==
    /\ Done(mtask[1], "approve")
    /\ Done(mtask[2], "approve")
    /\ mtask[1].rid = mtask[2].rid
    /\ pending[mtask[1].rid].type = "topup"

\* The same of the orders of src/bot: no two calls on one order both
\* complete with effect.
OneDecisionPerOrder ==
    \A s, t \in Tasks :
       (/\ s # t
        /\ task[s].pc = "done" /\ IsDecide(task[s].op)
        /\ task[t].pc = "done" /\ IsDecide(task[t].op)
        /\ task[s].oid = task[t].oid)
       => ~(task[s].res = "ok" /\ task[t].res = "ok")

\* C3: in every reachable state, after any sequence and any interleaving of
\* ledger and order-workflow operations, every wallet has balance >= 0 and
\* hold >= 0.
C3_NonNegative ==
    /\ \A u \in Users : wallet[u].balance >= 0 /\ wallet[u].hold >= 0
    /\ \A u \in Users : users[u].balance >= 0 /\ users[u].hold >= 0

\* A withdrawal of main.py both rejected and cancelled.
C3_Witness ==
    \E s, t \in Tasks :
       /\ Done(mtask[s], "reject") /\ mtask[s].res = "ok"
       /\ Done(mtask[t], "cancel") /\ mtask[t].res = "ok"
       /\ mtask[s].rid = mtask[t].rid

\* A call of approve / reject / cancel that starts on an order whose status
\* is already terminal returns "not_pending" and changes no document.
SecondCallRefused ==
    /\ \A t \in Tasks :
          (/\ task[t].pc = "idle" /\ task'[t].pc # "idle"
           /\ IsDecide(task'[t].op)
           /\ GetOrder(orders_obj, task'[t].oid).status \in TerminalStatus)
          => /\ task'[t].pc = "done"
             /\ task'[t].res = "not_pending"
             /\ wallet' = wallet
             /\ orders_obj' = orders_obj
    /\ \A t \in Tasks :
          (/\ mtask[t].pc = "idle" /\ mtask'[t].pc # "idle"
           /\ IsDecide(mtask'[t].op)
           /\ pending[mtask'[t].rid].status \in TerminalStatus)
          => /\ mtask'[t].pc = "done"
             /\ mtask'[t].res = "not_pending"
             /\ users' = users
             /\ pending' = pending

\* C7: approve, reject and cancel called a second time on the same order,
\* after the first call has completed, return NOT_PENDING and change neither
\* the orders document nor the wallets document.
C7_SecondCallNoOp == [][SecondCallRefused]_vars

\* A second approval of an approved top-up was refused; the credit is there once.
C7_Witness ==
    /\ Done(task[1], "approve")
    /\ task[1].res = "not_pending"
    /\ LET o == GetOrder(orders_obj, task[1].oid)
       IN /\ o.type = ORDER_TOPUP
          /\ o.status = STATUS_APPROVED
          /\ wallet[o.user_id].balance = o.amount

\* One step of the status machine, for the orders of src/bot and the
\* requests of main.py: new entries are pending, nothing becomes pending
\* again, and a terminal status stays.
StatusOneWay ==
    /\ Len(orders_obj'.orders) >= Len(orders_obj.orders)
    /\ \A i \in 1 .. Len(orders_obj'.orders) :
          IF i <= Len(orders_obj.orders)
          THEN /\ orders_obj'.orders[i].id = orders_obj.orders[i].id
               /\ orders_obj.orders[i].status \in TerminalStatus =>
                     orders_obj'.orders[i].status = orders_obj.orders[i].status
               /\ orders_obj'.orders[i].status = STATUS_PENDING =>
                     orders_obj.orders[i].status = STATUS_PENDING
          ELSE orders_obj'.orders[i].status = STATUS_PENDING
    /\ \A i \in ReqIds :
          /\ pending[i].status \in TerminalStatus => pending'[i].status = pending[i].status
          /\ pending'[i].status = "pending" => pending[i].status \in {"none", "pending"}
          /\ pending[i] # NoRequest => pending'[i] # NoRequest

\* C8: order status is a one-way state machine: every order is created
\* PENDING, create is the only way an order is ever PENDING, and a status of
\* APPROVED, REJECTED or CANCELLED never changes again under any sequence of
\* create / edit / approve / reject / cancel.
C8_StatusOneWay == [][StatusOneWay]_vars

\* An edit ran on a rejected order and the order is still rejected.
C8_Witness ==
    /\ Done(task[1], "edit")
    /\ task[1].res = "ok"
    /\ LET o == GetOrder(orders_obj, task[1].oid)
       IN o.status = STATUS_REJECTED /\ o.updated_at = 2

\* C9: an edit is permitted only while the order is PENDING: an edit issued
\* against an APPROVED, REJECTED or CANCELLED order is refused (and so leaves
\* the payload and updated_at as they were).
C9_EditOnlyWhilePending ==
    \A t \in Tasks :
       (/\ Done(task[t], "edit")
        /\ GetOrder(orders_obj, task[t].oid).status \in TerminalStatus)
       => task[t].res # "ok"

\* An edit of an approved order went through: amount and updated_at changed.
C9_Witness ==
    /\ Done(task[1], "edit")
    /\ task[1].res = "ok"
    /\ LET o == GetOrder(orders_obj, task[1].oid)
       IN o.status = STATUS_APPROVED /\ o.amount = task[1].amt /\ o.updated_at = 2

\* C10: order ids are unique and never reused under any sequence and any
\* interleaving of creates: no two orders of the collection share an id, no
\* two creates hand out the same id, and next_id is above every id present.
C10_UniqueIds ==
    /\ \A i, j \in 1 .. Len(orders_obj.orders) :
          i < j => orders_obj.orders[i].id < orders_obj.orders[j].id
    /\ \A i \in 1 .. Len(orders_obj.orders) :
          orders_obj.orders[i].id < orders_obj.next_id
    /\ \A s, t \in Tasks :
          (/\ s # t
           /\ task[s].pc = "done" /\ task[s].op \in {"create", "withdraw"}
           /\ task[t].pc = "done" /\ task[t].op \in {"create", "withdraw"}
           /\ task[s].res = "ok" /\ task[t].res = "ok")
          => task[s].ret # task[t].ret

\* Two creates have both returned an order.
C10_Witness ==
    /\ Done(task[1], "create") /\ task[1].res = "ok"
    /\ Done(task[2], "create") /\ task[2].res = "ok"

(***************************************************************************)
(* Properties of the order workflow, handler by handler.  A finished       *)
(* handler's record holds the user, the amount and w0, the user's wallet   *)
(* entry when the handler started.                                         *)
(***************************************************************************)
\* One step keeps every order of the document in its place, under its id,
\* owner and type.
KeepsOrders ==
    \A i \in 1 .. Len(orders_obj.orders) :
       /\ i <= Len(orders_obj'.orders)
       /\ orders_obj'.orders[i].id = orders_obj.orders[i].id
       /\ orders_obj'.orders[i].user_id = orders_obj.orders[i].user_id
       /\ orders_obj'.orders[i].type = orders_obj.orders[i].type

\* C11: the order collection is append-only: an order that a completed
\* create stored stays in the orders document; no later or concurrent create,
\* edit, approve or reject removes it or overwrites it with another order.
C11_AppendOnly == [][KeepsOrders]_vars

\* Two creates have returned and the document holds one order.
C11_Witness ==
    /\ started = 2
    /\ Done(task[1], "create") /\ task[1].res = "ok"
    /\ Done(task[2], "create") /\ task[2].res = "ok"
    /\ Len(orders_obj.orders) = 1

\* The last order of the document after a step that appended one.
Appended == orders_obj'.orders[Len(orders_obj'.orders)]

\* A step of a withdrawal request: a request for more than the balance is
\* answered "insufficient" and changes nothing, and a WITHDRAW order enters
\* the document only from a request whose amount has been moved to the hold.
WithdrawGuarded ==
    /\ \A t \in Tasks :
          (task[t].pc = "idle" /\ task'[t].op = "withdraw") =>
             IF wallet[task'[t].uid].balance < task'[t].amt
             THEN /\ task'[t].pc = "done"
                  /\ task'[t].res = "insufficient"
                  /\ wallet' = wallet
                  /\ orders_obj' = orders_obj
             ELSE task'[t].pc = "reserve_save"
    /\ (Len(orders_obj'.orders) > Len(orders_obj.orders) /\ Appended.type = ORDER_WITHDRAW) =>
          \E t \in Tasks :
             /\ task[t].pc = "create_save" /\ task[t].op = "withdraw"
             /\ task[t].uid = Appended.user_id /\ task[t].amt = Appended.amount
             /\ task[t].w0.balance >= task[t].amt
             /\ wallet[task[t].uid] = [balance |-> task[t].w0.balance - task[t].amt,
                                       hold |-> task[t].w0.hold + task[t].amt]
    /\ \A t \in Tasks :
          (mtask[t].pc = "idle" /\ mtask'[t].op = "withdraw") =>
             /\ users[mtask'[t].uid].balance < mtask'[t].amt => mtask'[t].pc = "done"
             /\ mtask'[t].pc = "done" =>
                   /\ mtask'[t].res = "insufficient"
                   /\ users' = users
                   /\ pending' = pending
    /\ \A i \in ReqIds :
          (pending[i] = NoRequest /\ pending'[i].type = "withdraw") =>
             \E t \in Tasks :
                /\ mtask[t].pc = "m_req_save" /\ mtask[t].rid = i
                /\ mtask[t].w0.balance >= mtask[t].amt
                /\ users[mtask[t].uid] = [balance |-> mtask[t].w0.balance - mtask[t].amt,
                                          hold |-> mtask[t].w0.hold + mtask[t].amt]

\* C12: a WITHDRAW order is only ever created after its funds were reserved;
\* if the reserve fails no order is created, the orders document and the
\* wallet are unchanged and the caller is told the funds are insufficient.
C12_WithdrawAfterReserve == [][WithdrawGuarded]_vars

\* A withdrawal of 2 was refused on a balance of 1.
C12_Witness ==
    /\ Done(task[1], "withdraw")
    /\ task[1].res = "insufficient"
    /\ task[1].w0.balance = 1
    /\ task[1].amt = 2
    /\ wallet[task[1].uid] = task[1].w0

\* C13: approving a PENDING TOPUP order credits the owner's wallet with
\* exactly the order's amount (balance + amount, hold unchanged) and then
\* sets the status to APPROVED: the credit is in place while the status write
\* is still to come, and both are in place when the approval returns.
C13_ApproveTopupCredits ==
    /\ \A t \in Tasks :
          (task[t].op = "approve" /\ task[t].order.type = ORDER_TOPUP
           /\ task[t].pc \in {"status_read", "status_save"})
          => /\ wallet[task[t].uid] = [balance |-> task[t].w0.balance + task[t].amt,
                                       hold |-> task[t].w0.hold]
             /\ GetOrder(orders_obj, task[t].oid).status = STATUS_PENDING
    /\ \A t \in Tasks :
          (Done(task[t], "approve") /\ task[t].res = "ok"
           /\ GetOrder(orders_obj, task[t].oid).type = ORDER_TOPUP)
          => /\ wallet[task[t].uid] = [balance |-> task[t].w0.balance + task[t].amt,
                                       hold |-> task[t].w0.hold]
             /\ GetOrder(orders_obj, task[t].oid).amount = task[t].amt
             /\ GetOrder(orders_obj, task[t].oid).status = STATUS_APPROVED
    /\ \A t \in Tasks :
          (Done(mtask[t], "approve") /\ mtask[t].res = "ok" /\ mtask[t].type = "topup")
          => /\ users[mtask[t].uid] = [balance |-> mtask[t].w0.balance + mtask[t].amt,
                                       hold |-> mtask[t].w0.hold]
             /\ pending[mtask[t].rid].amount = mtask[t].amt
             /\ pending[mtask[t].rid].status = "approved"

\* A top-up of 2 approved on a wallet that held 1 and a hold of 1.
C13_Witness ==
    /\ Done(task[1], "approve")
    /\ task[1].res = "ok"
    /\ GetOrder(orders_obj, task[1].oid).type = ORDER_TOPUP
    /\ task[1].amt = 2
    /\ task[1].w0.hold = 1
    /\ wallet[task[1].uid].balance = task[1].w0.balance + 2

\* C14: approving a PENDING WITHDRAW order settles it: the owner's hold is
\* reduced by the order's amount, the balance is unchanged and the status
\* becomes APPROVED (handle_approve_request of main.py).
C14_ApproveWithdrawSettles ==
    \A t \in Tasks :
       (Done(mtask[t], "approve") /\ mtask[t].res = "ok" /\ mtask[t].type = "withdraw")
       => /\ users[mtask[t].uid] = [balance |-> mtask[t].w0.balance,
                                    hold |-> mtask[t].w0.hold - mtask[t].amt]
          /\ pending[mtask[t].rid].status = "approved"

\* A withdrawal of main.py was approved.
C14_Witness ==
    /\ Done(mtask[1], "approve")
    /\ mtask[1].res = "ok"
    /\ mtask[1].type = "withdraw"
    /\ pending[mtask[1].rid].status = "approved"

\* The same of _approve_order of src/bot.
SettleOnApprove ==
    \A t \in Tasks :
       (Done(task[t], "approve") /\ task[t].res = "ok"
        /\ GetOrder(orders_obj, task[t].oid).type = ORDER_WITHDRAW)
       => /\ wallet[task[t].uid] = [balance |-> task[t].w0.balance,
                                    hold |-> task[t].w0.hold - task[t].amt]
          /\ GetOrder(orders_obj, task[t].oid).status = STATUS_APPROVED

\* C15: rejecting a PENDING WITHDRAW order releases the order's amount to
\* the owner (hold reduced by the amount, balance increased by it); rejecting
\* a PENDING order of any other type leaves the wallet unchanged; in both
\* cases the status becomes REJECTED.
C15_RejectReleases ==
    /\ \A t \in Tasks :
          (Done(task[t], "reject") /\ task[t].res = "ok")
          => /\ wallet[task[t].uid] =
                   IF GetOrder(orders_obj, task[t].oid).type = ORDER_WITHDRAW
                   THEN [balance |-> task[t].w0.balance + task[t].amt,
                         hold |-> task[t].w0.hold - task[t].amt]
                   ELSE task[t].w0
             /\ GetOrder(orders_obj, task[t].oid).status = STATUS_REJECTED
    /\ \A t \in Tasks :
          (Done(mtask[t], "reject") /\ mtask[t].res = "ok")
          => /\ users[mtask[t].uid] =
                   IF mtask[t].type = "withdraw"
                   THEN [balance |-> mtask[t].w0.balance + mtask[t].amt,
                         hold |-> mtask[t].w0.hold - mtask[t].amt]
                   ELSE mtask[t].w0
             /\ pending[mtask[t].rid].status = "rejected"

\* A withdrawal order whose amount was edited has been rejected.
C15_Witness ==
    /\ Done(task[1], "reject")
    /\ task[1].res = "ok"
    /\ LET o == GetOrder(orders_obj, task[1].oid)
       IN o.type = ORDER_WITHDRAW /\ o.updated_at = 2 /\ task[1].w0.hold < o.amount

\* C16: the withdraw / reject round trip.  A withdrawal of a <= b on wallet
\* (b, h) gives (b - a, h + a) and a PENDING order of a; a reject that finds
\* that wallet and that order as the request left them gives back (b, h)
\* exactly (its w0 is (b - a, h + a), so it returns (b, h)), order REJECTED.
C16_WithdrawRejectRoundTrip ==
    /\ \A t \in Tasks :
          (Done(task[t], "withdraw") /\ task[t].res = "ok")
          => /\ task[t].amt <= task[t].w0.balance
             /\ wallet[task[t].uid] = [balance |-> task[t].w0.balance - task[t].amt,
                                       hold |-> task[t].w0.hold + task[t].amt]
             /\ LET o == GetOrder(orders_obj, task[t].ret)
                IN /\ o.type = ORDER_WITHDRAW /\ o.status = STATUS_PENDING
                   /\ o.user_id = task[t].uid /\ o.amount = task[t].amt
    /\ \A t \in Tasks :
          (/\ Done(task[t], "reject") /\ task[t].res = "ok"
           /\ GetOrder(orders_obj, task[t].oid).type = ORDER_WITHDRAW
           /\ GetOrder(orders_obj, task[t].oid).updated_at = 1
           /\ task[t].w0.hold >= task[t].amt)
          => /\ wallet[task[t].uid] = [balance |-> task[t].w0.balance + task[t].amt,
                                       hold |-> task[t].w0.hold - task[t].amt]
             /\ GetOrder(orders_obj, task[t].oid).status = STATUS_REJECTED

\* A withdrawal of 1 from (1, 1) has been rejected: the wallet is (1, 1) again.
C16_Witness ==
    /\ Done(task[1], "reject")
    /\ task[1].res = "ok"
    /\ GetOrder(orders_obj, task[1].oid).type = ORDER_WITHDRAW
    /\ GetOrder(orders_obj, task[1].oid).updated_at = 1
    /\ task[1].amt = 1
    /\ task[1].w0 = [balance |-> 0, hold |-> 2]
    /\ wallet[task[1].uid] = [balance |-> 1, hold |-> 1]

\* C17: a cancel takes effect only when the actor is the order's own owner
\* and the order is a WITHDRAW order still PENDING; a cancel by any other
\* actor changes nothing.
C17_CancelOnlyByOwner ==
    /\ \A t \in Tasks :
          (Done(mtask[t], "cancel") /\ mtask[t].res = "ok")
          => mtask[t].actor = pending[mtask[t].rid].user_id
    /\ \A i \in ReqIds :
          pending[i].status = "cancelled" =>
             pending[i].type = "withdraw" /\ pending[i].handled_by = pending[i].user_id

\* A withdrawal was cancelled by someone who is not its owner, and the
\* amount went back to the owner's balance.
C17_Witness ==
    /\ Done(mtask[1], "cancel")
    /\ mtask[1].res = "ok"
    /\ mtask[1].actor # mtask[1].uid
    /\ pending[mtask[1].rid].status = "cancelled"
    /\ users[mtask[1].uid].balance = mtask[1].w0.balance + mtask[1].amt

\* C18: approving an inventory top-up order debits its cost from the owner's
\* balance, and fails, leaving the order PENDING and the wallet unchanged,
\* when the balance is below the cost: an approval that went through found
\* the balance sufficient and has taken the cost off it.
C18_InvTopupDebits ==
    \A t \in Tasks :
       (Done(task[t], "approve") /\ task[t].res = "ok"
        /\ GetOrder(orders_obj, task[t].oid).type = ORDER_ICH_TOPUP)
       => /\ task[t].w0.balance >= task[t].amt
          /\ wallet[task[t].uid] = [balance |-> task[t].w0.balance - task[t].amt,
                                    hold |-> task[t].w0.hold]

\* An inventory top-up of 2 was approved on a balance of 1.
C18_Witness ==
    /\ Done(task[1], "approve")
    /\ task[1].res = "ok"
    /\ GetOrder(orders_obj, task[1].oid).type = ORDER_ICH_TOPUP
    /\ GetOrder(orders_obj, task[1].oid).status = STATUS_APPROVED
    /\ task[1].amt = 2
    /\ task[1].w0.balance = 1

\* C19: approving an inventory withdrawal order credits its gain to the
\* owner's balance: when the approval has gone through the balance is higher
\* by exactly the order's amount.
C19_InvWithdrawCredits ==
    \A t \in Tasks :
       (Done(task[t], "approve") /\ task[t].res = "ok"
        /\ GetOrder(orders_obj, task[t].oid).type = ORDER_ICH_WITHDRAW)
       => wallet[task[t].uid] = [balance |-> task[t].w0.balance + task[t].amt,
                                 hold |-> task[t].w0.hold]

\* An inventory withdrawal was approved and the wallet is as it was.
C19_Witness ==
    /\ Done(task[1], "approve")
    /\ task[1].res = "ok"
    /\ GetOrder(orders_obj, task[1].oid).type = ORDER_ICH_WITHDRAW
    /\ GetOrder(orders_obj, task[1].oid).status = STATUS_APPROVED
    /\ wallet[task[1].uid] = task[1].w0

\* C20: when two users race for the same AVAILABLE account exactly one
\* assignment succeeds: no account is ever recorded as belonging to two
\* users, no two confirmations of one account both report success, and a
\* user recorded as holding an account is the one the pool assigned it to.
C20_OneAssignee ==
    /\ \A c, d \in Claimants :
          (c # d /\ eaccount[c] # NoName) => eaccount[c] # eaccount[d]
    /\ \A c, d \in Claimants :
          (c # d /\ itask[c].pc = "done" /\ itask[c].res = "ok"
                 /\ itask[d].pc = "done" /\ itask[d].res = "ok")
          => itask[c].username # itask[d].username
    /\ \A c \in Claimants :
          eaccount[c] # NoName =>
             accounts[FindAccount(accounts, eaccount[c])].assigned_to = c

\* Two users hold the same account after both confirmations reported success.
C20_Witness ==
    /\ eaccount[1] # NoName
    /\ eaccount[1] = eaccount[2]
    /\ itask[2].pc = "done" /\ itask[2].res = "ok"

\* The stored account has no status field: "assigned" is read off
\* assigned_to, as the scan for available accounts does.
StatusOf(acc) == IF IsAvailable(acc) THEN "available" ELSE "assigned"

Reaches(text, username) ==
    LET r == Ratio(Normalise(text), Normalise(username))
    IN r.num * 20 >= 11 * r.den

\* The typed name and the stored name are equal once normalised.
SameName(text, username) == Normalise(text) = Normalise(username)

Answered(c) == asked[c].reply # "none"

\* C22: the search returns nothing exactly when the pool has no available
\* account or none whose normalised username reaches similarity 0.55 with
\* the typed name; "john" against the available accounts johnny77, alice
\* gives johnny77, and against zzz gives nothing.
C22_NullBelowThreshold ==
    \A c \in Claimants :
       Answered(c) =>
          /\ (asked[c].match = NoName) <=>
                ~ \E i \in 1 .. Len(accounts) :
                     /\ IsAvailable(accounts[i])
                     /\ Reaches(asked[c].text, accounts[i].username)
          /\ (asked[c].text = <<"j", "o", "h", "n">> /\ Len(Available(accounts)) = 2
              /\ Available(accounts)[1] = <<"j", "o", "h", "n", "n", "y", "7", "7">>)
             => asked[c].match = Available(accounts)[1]

\* An account was suggested whose similarity with the typed name is below
\* 0.55.
C22_Witness ==
    /\ Answered(1)
    /\ asked[1].match # NoName
    /\ ~ Reaches(asked[1].text, asked[1].match)

\* The two examples of the search: john finds johnny77, and finds nothing
\* in a pool of zzz.
MatchExamples ==
    \A c \in Claimants :
       (Answered(c) /\ asked[c].text = <<"j", "o", "h", "n">>) =>
          /\ (Len(Available(accounts)) = 2
              /\ Available(accounts)[1] = <<"j", "o", "h", "n", "n", "y", "7", "7">>)
             => asked[c].match = Available(accounts)[1]
          /\ Available(accounts) = << <<"z", "z", "z">> >> => asked[c].match = NoName

\* C23: the search only ever returns an account that is available when the
\* pool is scanned, and when an available account's username equals the
\* typed name after case and whitespace normalisation, that account is the
\* one returned.
C23_AvailableExactFirst ==
    \A c \in Claimants :
       Answered(c) =>
          /\ asked[c].match # NoName =>
                \E i \in 1 .. Len(accounts) :
                   accounts[i].username = asked[c].match /\ IsAvailable(accounts[i])
          /\ (\E i \in 1 .. Len(accounts) :
                 IsAvailable(accounts[i]) /\ SameName(asked[c].text, accounts[i].username))
             => /\ asked[c].match # NoName
                /\ SameName(asked[c].text, asked[c].match)

\* Another account was suggested while an available one carries the typed
\* name in capitals.
C23_Witness ==
    /\ Answered(1)
    /\ asked[1].match # NoName
    /\ ~ SameName(asked[1].text, asked[1].match)
    /\ \E i \in 1 .. Len(accounts) :
          IsAvailable(accounts[i]) /\ SameName(asked[1].text, accounts[i].username)

\* The part of C23 that holds: what is suggested is available, and a stored
\* name equal to the typed name as stored (no capitals, no outer blanks) is
\* the one suggested.
SuggestsAvailable ==
    \A c \in Claimants :
       Answered(c) =>
          /\ asked[c].match # NoName =>
                \E i \in 1 .. Len(accounts) :
                   accounts[i].username = asked[c].match /\ IsAvailable(accounts[i])
          /\ (\E i \in 1 .. Len(accounts) :
                 IsAvailable(accounts[i]) /\ accounts[i].username = Normalise(asked[c].text))
             => asked[c].match = Normalise(asked[c].text)

\* The file holds one complete document.
Complete(file) == file.exists => \E v \in DocValues : file.text = Dumps(v)

\* A step changes a data file only by installing the whole text of the
\* document being written, and a read finds a text that parses.
WholeDocuments ==
    /\ \A f \in Files :
          \/ disk'[f] = disk[f]
          \/ \E t \in Tasks :
                /\ stask[t].pc = "w_replace" /\ stask[t].file = f
                /\ disk'[f] = FileOf(Dumps(stask[t].data))
    /\ \A t \in Tasks :
          (stask[t].pc = "r_read" /\ stask'[t].pc = "release")
          => stask'[t].res = "ok"

\* C24: a write is crash-safe and never torn: in every state, also after a
\* crash at any step of a write, each data file holds one complete document,
\* the old one or the new one, and no read finds a partly written text.
C24_OldOrNew == [][WholeDocuments]_vars

\* After a crash a data file holds the beginning of a document.
C24_Witness ==
    /\ crashes = 1
    /\ \E f \in Files : disk[f].exists /\ disk[f].text # <<>> /\ ~ Complete(disk[f])

\* Without a crash of the machine every data file is complete.
CompleteInRun == crashes = 0 => \A f \in Files : Complete(disk[f])

\* A read of a file that does not exist returns the default and leaves the
\* file written with it.
ReadInitialises ==
    \A t \in Tasks :
       (stask[t].pc = "idle" /\ stask'[t].op = "load"
        /\ ~ disk[stask'[t].file].exists)
       => /\ stask'[t].ret = DefaultDoc
          /\ disk'[stask'[t].file] = FileOf(Dumps(DefaultDoc))

\* C25: read(key, default) on a key whose record is absent initialises the
\* stored record to the default and returns the default, so that after the
\* read the record exists.
C25_ReadInitialisesAbsent == [][ReadInitialises]_vars

\* A read has returned the default and the file still does not exist.
C25_Witness ==
    /\ stask[1].pc = "done" /\ stask[1].op = "load" /\ stask[1].res = "absent"
    /\ stask[1].ret = DefaultDoc
    /\ ~ disk[stask[1].file].exists

\* A read of a text that does not parse returns the default without an
\* error and leaves the file re-initialised to the default.
CorruptRecovered ==
    \A t \in Tasks :
       (/\ stask[t].pc = "r_read" /\ stask'[t].pc = "release"
        /\ ~ Loads(disk[stask[t].file].text).ok)
       => /\ stask'[t].res # "json_error"
          /\ stask'[t].ret = DefaultDoc
          /\ disk'[stask[t].file] = FileOf(Dumps(DefaultDoc))

\* C26: a read of a record that fails to parse never fails the caller: the
\* corrupt record is put aside, the key is re-initialised to the default and
\* the read returns the default.
C26_CorruptReadRecovers == [][CorruptRecovered]_vars

\* A read has ended in JSONDecodeError and the corrupt text is still the
\* data file.
C26_Witness ==
    /\ stask[1].pc = "done" /\ stask[1].op = "load" /\ stask[1].res = "json_error"
    /\ ~ Loads(disk[stask[1].file].text).ok

\* C28: operations on different keys never block each other: a task that
\* wants the lock of a file whose lock is free can take it, whoever holds
\* or wants the lock of another file, and a task inside a file's lock can
\* always take its next step.
C28_KeysIndependent ==
    \A t \in Tasks :
       /\ (stask[t].pc \in {"w_lock", "r_lock"} /\ lock[stask[t].file] = 0)
          => ENABLED SAcquire(t)
       /\ stask[t].pc \in {"w_open", "w_write", "w_replace", "r_read", "release"}
          => ENABLED StoreSteps(t)

\* Task 1 is writing users inside its lock while task 2 wants the free lock
\* of pending.
C28_Witness ==
    /\ lock["users"] = 1 /\ stask[1].pc = "w_write"
    /\ stask[2].pc = "w_lock" /\ stask[2].file = "pending"
    /\ lock["pending"] = 0

\* C29: write / read round trip: a document written and then read, with no
\* write in between, comes back structurally equal to the value written.
C29_RoundTrip ==
    \A t \in Tasks :
       (/\ stask[t].op = "load" /\ stask[t].pc \in {"release", "done"}
        /\ lastw[stask[t].file] # NoValue)
       => /\ stask[t].res = "ok"
          /\ stask[t].ret = lastw[stask[t].file]

\* A dict holding a string and a list has been written and read back.
C29_Witness ==
    /\ stask[1].pc = "done" /\ stask[1].op = "load" /\ stask[1].res = "ok"
    /\ stask[1].ret = JMap(<<[key |-> "a", value |-> JStr("1")],
                            [key |-> "1", value |-> JList(<<JInt(1)>>)]>>)
    /\ lastw["users"] = stask[1].ret

\* The text a data file holds when the last write that succeeded wrote v.
LastWritten(f) == IF lastw[f] = NoValue THEN NoFile ELSE FileOf(Dumps(lastw[f]))

\* The step at which a write fails changes no data file and leaves each
\* holding the last value written with success; every change of a data
\* file, a retried write included, installs the whole document of a write
\* that succeeds.
FailedWriteNoOp ==
    /\ \A t \in Tasks :
          (stask[t].res # "io_error" /\ stask'[t].res = "io_error")
          => /\ disk' = disk
             /\ \A f \in Files : disk'[f] = LastWritten(f)
             /\ stask'[t].ret = NoValue
    /\ \A f \in Files :
          disk'[f] # disk[f]
          => \E t \in Tasks :
                /\ stask[t].op = "write" /\ stask[t].file = f
                /\ stask[t].res = "none" /\ stask'[t].res = "ok"
                /\ disk'[f] = FileOf(Dumps(stask[t].data))

\* One atomic_write that fails is a no-op on the files.
StoreFailedWriteNoOp == [][FailedWriteNoOp]_vars

RetryCreditsTwice ==
    /\ failures = 1
    /\ task[1].pc = "done" /\ task[1].op = "approve" /\ task[1].res = "ok"
    /\ GetOrder(orders_obj, task[1].oid).type = ORDER_TOPUP
    /\ GetOrder(orders_obj, 2) = NoOrder
    /\ wallet[task[1].uid].balance = 2 * task[1].amt

\* The same in main.py: the user of a pending top-up request is credited
\* and the request is still pending after the failed write of pending.json.
C27_MainWitness ==
    /\ mtask[1].pc = "done" /\ mtask[1].op = "approve" /\ mtask[1].res = "io_error"
    /\ pending[mtask[1].rid].status = "pending"
    /\ users[mtask[1].uid].balance = mtask[1].w0.balance + mtask[1].amt
    /\ mtask[1].amt > 0

\* C30: clamping never triggers in the workflow: whenever release_hold or
\* finalize_withdraw is about to be applied with an order's amount a to the
\* wallet it has read, that wallet's hold is at least a.
C30_HoldCoversAmount ==
    \A t \in Tasks :
       (task[t].pc = "ledger_save" /\ task[t].order.type = ORDER_WITHDRAW)
       => task[t].wsnap[task[t].uid].hold >= task[t].order.amount

\* release_hold or finalize_withdraw is about to run on an edited withdrawal
\* whose amount is more than the wallet holds.
C30_Witness ==
    /\ task[1].pc = "ledger_save" /\ task[1].op \in {"approve", "reject"}
    /\ task[1].order.type = ORDER_WITHDRAW
    /\ task[1].order.updated_at > 0
    /\ task[1].wsnap[task[1].uid].hold < task[1].order.amount

\* The four ledger functions of services/wallet.py.
LedgerOps == {"add_balance", "reserve_withdraw", "release_hold", "finalize_withdraw"}

\* The call just made, when the step is a call of a ledger function.
InvalidAmountRefused ==
    (Len(lhist') = Len(lhist) + 1 /\ lhist'[Len(lhist')].op \in LedgerOps)
    => LET c == lhist'[Len(lhist')]
       IN /\ c.amount <= 0 => /\ ~ c.ok
                              /\ c.reason = "amount_invalid"
                              /\ lw' = lw
          /\ (c.op = "add_balance" /\ c.amount > 0) => c.ok

\* C31: every ledger operation requires amount > 0: add_balance,
\* reserve_withdraw, release_hold and finalize_withdraw called with
\* amount <= 0 report an invalid amount and leave balance and hold as they
\* were; add_balance with amount > 0 never fails.
C31_InvalidAmountRefused == [][InvalidAmountRefused]_vars

\* add_balance was called with -1 and took 1 off the balance.
C31_Witness ==
    /\ lhist # <<>>
    /\ LET c == lhist[Len(lhist)]
       IN /\ c.op = "add_balance" /\ c.amount = -1 /\ c.ok
          /\ c.pre.balance = 1 /\ c.post.balance = 0 /\ lw = c.post

\* reserve_withdraw alone refuses an amount <= 0 and leaves the wallet.
ReserveRefusesInvalid ==
    \A i \in 1 .. Len(lhist) :
       (lhist[i].op = "reserve_withdraw" /\ lhist[i].amount <= 0)
       => /\ ~ lhist[i].ok /\ lhist[i].reason = "amount_invalid"
          /\ lhist[i].post = lhist[i].pre

\* add_balance with a positive amount is never refused and adds the amount.
CreditNeverFails ==
    \A i \in 1 .. Len(lhist) :
       (lhist[i].op = "add_balance" /\ lhist[i].amount > 0)
       => /\ lhist[i].ok
          /\ lhist[i].post.balance = lhist[i].pre.balance + lhist[i].amount

\* A step that makes an order APPROVED is the status write of an approve
\* handler whose ledger call has been applied to the wallet it found; a
\* ledger write that fails ends the handler with wallet and orders as they
\* were, the order PENDING.
LedgerBeforeStatus ==
    /\ \A i \in OrderIds :
          (/\ GetOrder(orders_obj', i).status = STATUS_APPROVED
           /\ GetOrder(orders_obj, i).status # STATUS_APPROVED)
          => \E t \in Tasks :
                /\ task[t].pc = "status_save" /\ task[t].op = "approve"
                /\ task[t].oid = i
                /\ wallet[task[t].uid] =
                      LedgerEffect("approve", task[t].order.type, task[t].w0,
                                   task[t].order.amount)
    /\ \A t \in Tasks :
          (task[t].pc = "ledger_save" /\ task'[t].res = "io_error")
          => /\ task'[t].pc = "done"
             /\ wallet' = wallet /\ orders_obj' = orders_obj
             /\ GetOrder(orders_obj', task[t].oid).status = STATUS_PENDING

\* C32: within approve the ledger effect is applied before the status is
\* written: whenever an order becomes APPROVED its ledger effect is already
\* in the wallet, and when the ledger write fails with a store error the
\* status write is skipped and the order stays PENDING.
C32_LedgerBeforeStatus == [][LedgerBeforeStatus]_vars

\* A top-up has been approved: its amount is in the wallet and the order is
\* APPROVED.
C32_Witness ==
    /\ task[1].pc = "done" /\ task[1].op = "approve" /\ task[1].res = "ok"
    /\ GetOrder(orders_obj, task[1].oid).type = ORDER_TOPUP
    /\ GetOrder(orders_obj, task[1].oid).status = STATUS_APPROVED
    /\ task[1].amt > 0
    /\ wallet[task[1].uid].balance = task[1].w0.balance + task[1].amt

\* The approval of a top-up has failed at the ledger write: nothing was
\* credited and the order is PENDING.
LedgerFailLeavesPending ==
    /\ task[1].pc = "done" /\ task[1].op = "approve" /\ task[1].res = "io_error"
    /\ GetOrder(orders_obj, task[1].oid).type = ORDER_TOPUP
    /\ GetOrder(orders_obj, task[1].oid).status = STATUS_PENDING
    /\ task[1].amt > 0
    /\ wallet[task[1].uid] = task[1].w0

\* The task is inside "async with lock": reading the file, or writing the
\* .tmp file and replacing the file with it, up to the release.
InCritical(t) ==
    stask[t].pc \in {"w_open", "w_write", "w_replace", "r_read", "release"}

\* C33: mutual exclusion per key: at most one task is inside the critical
\* section of a file, and it is the holder of the file's lock; so a read
\* never overlaps a write of the same file and two writers never use the
\* file's .tmp file together.
C33_MutualExclusion ==
    /\ \A t1, t2 \in Tasks :
          (InCritical(t1) /\ InCritical(t2) /\ stask[t1].file = stask[t2].file)
          => t1 = t2
    /\ \A t \in Tasks : InCritical(t) => lock[stask[t].file] = t

\* Task 1 is writing the .tmp file of users inside the lock and task 2
\* waits at the lock to read users.
C33_Witness ==
    /\ stask[1].pc = "w_replace" /\ stask[1].file = "users"
    /\ stask[2].pc = "r_lock" /\ stask[2].file = "users"
    /\ lock["users"] = 1

\* The task waits for the lock of its file.
AtLock(t) == stask[t].pc \in {"w_lock", "r_lock"}

\* C34: deadlock freedom and completion: under fair scheduling every store
\* call that asks for a file's lock gets it, finishes and gives it back;
\* no task waits for one file's lock while holding another's.
C34_EveryCallCompletes ==
    /\ \A t \in Tasks :
          AtLock(t) ~> (stask[t].pc = "done" /\ \A f \in Files : lock[f] # t)
    /\ [](\A t \in Tasks : AtLock(t) => \A f \in Files : lock[f] # t)

\* Task 1 waits for the lock of users, which task 2 holds.
C34_Witness ==
    /\ AtLock(1) /\ stask[1].file = "users"
    /\ lock["users"] = 2 /\ InCritical(2)

\* The similarity of the typed name, as the handler compares it, with a
\* stored username.
Similarity(text, username) == Ratio(Normalise(text), username)

\* Fractions compared by cross-multiplication.
Below(r, q) == r.num * q.den < q.num * r.den
SameRatio(r, q) == r.num * q.den = q.num * r.den

\* C35: the search is deterministic with a first-in-stored-order
\* tie-break: the account suggested is the first, in stored order, of the
\* available accounts closest to the typed name, and two searches of the
\* same pool with the same typed name suggest the same account.
C35_FirstOfTies ==
    /\ \A c \in Claimants :
          (Answered(c) /\ asked[c].match # NoName) =>
             LET names == Available(accounts)
                 m == Similarity(asked[c].text, asked[c].match)
             IN \E k \in 1 .. Len(names) :
                   /\ names[k] = asked[c].match
                   /\ \A j \in 1 .. Len(names) :
                         /\ ~ Below(m, Similarity(asked[c].text, names[j]))
                         /\ j < k => Below(Similarity(asked[c].text, names[j]), m)
    /\ \A c1, c2 \in Claimants :
          (Answered(c1) /\ Answered(c2) /\ asked[c1].text = asked[c2].text)
          => asked[c1].match = asked[c2].match

\* Two available accounts are equally close to the typed name and the
\* first of them in stored order was suggested, to both users who typed it.
C35_Witness ==
    /\ Len(Available(accounts)) = 2
    /\ Answered(1) /\ Answered(2) /\ asked[1].text = asked[2].text
    /\ asked[1].match = Available(accounts)[1]
    /\ SameRatio(Similarity(asked[1].text, Available(accounts)[1]),
                 Similarity(asked[1].text, Available(accounts)[2]))
    /\ Available(accounts)[1] # Available(accounts)[2]

\* A decision or an edit started for an order id that is not in the orders
\* document ends at once with "not found" and changes nothing.
UnknownOrderRefused ==
    \A t \in Tasks :
       (/\ task[t].pc = "idle"
        /\ task'[t].op \in {"approve", "reject", "edit"}
        /\ GetOrder(orders_obj, task'[t].oid) = NoOrder)
       => /\ task'[t].pc = "done" /\ task'[t].res = "not_found"
          /\ orders_obj' = orders_obj
          /\ wallet' = wallet

RECURSIVE PendingWithdrawals(_, _)
PendingWithdrawals(u, k) ==
    IF k = 0 THEN 0
    ELSE LET o == orders_obj.orders[k]
         IN PendingWithdrawals(u, k - 1) +
            (IF o.user_id = u /\ o.type = ORDER_WITHDRAW /\ o.status = STATUS_PENDING
             THEN o.amount ELSE 0)

\* The same over the first k request ids of main.py's pending.json.
RECURSIVE MainPendingWithdrawals(_, _)
MainPendingWithdrawals(u, k) ==
    IF k = 0 THEN 0
    ELSE MainPendingWithdrawals(u, k - 1) +
         (IF pending[k].user_id = u /\ pending[k].type = "withdraw"
             /\ pending[k].status = "pending"
          THEN pending[k].amount ELSE 0)

\* No handler is between its first and its last store call.
Quiescent ==
    \A t \in Tasks : task[t].pc \in {"idle", "done"} /\ mtask[t].pc \in {"idle", "done"}

\* C37: hold / order consistency: in every state with no handler in flight
\* each user's hold is the sum of the amounts of that user's PENDING
\* WITHDRAW orders, in src/bot and in main.py alike.
C37_HoldMatchesPending ==
    Quiescent =>
       \A u \in Users :
          /\ wallet[u].hold = PendingWithdrawals(u, Len(orders_obj.orders))
          /\ users[u].hold = MainPendingWithdrawals(u, MaxRequests)

\* src/bot at rest: a pending withdrawal whose amount was edited is larger
\* than the hold.
C37_Witness ==
    /\ Quiescent
    /\ \E u \in Users :
          /\ wallet[u].hold = 1
          /\ PendingWithdrawals(u, Len(orders_obj.orders)) = 2
          /\ Len(orders_obj.orders) = 1

\* main.py at rest: the withdrawal was approved and its amount is still
\* held.
C37_MainWitness ==
    /\ Quiescent
    /\ \E u \in Users :
          /\ users[u].hold = 1
          /\ MainPendingWithdrawals(u, MaxRequests) = 0
          /\ \E i \in ReqIds : pending[i].type = "withdraw" /\ pending[i].status = "approved"

\* What a wallet entry holds in all.
Total(w) == w.balance + w.hold

\* C38: conservation of funds: reserve_withdraw and release_hold called
\* with a positive amount leave balance + hold as it was, add_balance adds
\* the amount to it and finalize_withdraw takes the amount from it, so no
\* sequence of reserve and release calls creates or destroys money.
C38_Conservation ==
    \A i \in 1 .. Len(lhist) :
       LET c == lhist[i]
       IN c.amount > 0 =>
             /\ c.op \in {"reserve_withdraw", "release_hold", "main_reserve"}
                => Total(c.post) = Total(c.pre)
             /\ c.op = "add_balance" => Total(c.post) = Total(c.pre) + c.amount
             /\ c.op = "finalize_withdraw" => Total(c.post) = Total(c.pre) - c.amount

\* reserve_withdraw of 1 followed by release_hold of 2: the wallet (1, 0)
\* has become (2, 0).
C38_Witness ==
    /\ Len(lhist) = 2
    /\ lhist[1].op = "reserve_withdraw" /\ lhist[1].amount = 1 /\ lhist[1].ok
    /\ lhist[1].pre = [balance |-> 1, hold |-> 0]
    /\ lhist[2].op = "release_hold" /\ lhist[2].amount = 2
    /\ lhist[2].pre = lhist[1].post
    /\ lw = [balance |-> 2, hold |-> 0]

\* The calls whose amount the hold covers conserve: reserve_withdraw
\* always, release_hold and finalize_withdraw when amount <= hold.
CoveredCallsConserve ==
    \A i \in 1 .. Len(lhist) :
       LET c == lhist[i]
       IN (c.amount > 0 /\ c.amount <= c.pre.hold) =>
             /\ c.op = "release_hold" => Total(c.post) = Total(c.pre)
             /\ c.op = "finalize_withdraw" => Total(c.post) = Total(c.pre) - c.amount

\* No confirm or delete handler is between its first and last store call.
PoolQuiescent == \A c \in Claimants : itask[c].pc \in {"idle", "done"}

\* C39: user / pool consistency: in every state with no handler in flight
\* an account's assigned_to is u exactly when user u's eshansy_account is
\* that account, so each account belongs to at most one user and each user
\* holds at most one account.
C39_LinksAgree ==
    PoolQuiescent =>
       \A i \in 1 .. Len(accounts), c \in Claimants :
          (accounts[i].assigned_to = c) <=> (eaccount[c] = accounts[i].username)

\* User 1 alone has confirmed two suggestions in turn: both accounts are
\* assigned to user 1 and the user's record names the second.
C39_Witness ==
    /\ PoolQuiescent
    /\ suggested[2] = NoName /\ eaccount[2] = NoName /\ itask[2].pc = "idle"
    /\ Len(accounts) = 2
    /\ accounts[1].assigned_to = 1 /\ accounts[2].assigned_to = 1
    /\ eaccount[1] \in {accounts[1].username, accounts[2].username}

\* Two users' confirmations of one account overlapped: the pool names one
\* of them and both users' records name the account.
C39_RaceWitness ==
    /\ PoolQuiescent
    /\ eaccount[1] # NoName /\ eaccount[1] = eaccount[2]

=============================================================================
